---- MODULE Spec2Model ----
(***************************************************************************)
(* Model of the memory engine of dev-nolant/Contextual-Memory-Compilation- *)
(* Architecture: the MemoryGraph store (src/src/memory.rs), the compiler   *)
(* (src/src/compiler.rs) and the executor (src/src/execution.rs).          *)
(*                                                                         *)
(* f64 quantities in [0,1] (confidence, salience, strength, thresholds)    *)
(* are fixed-point integers in thousandths: 1.0 is 1000, 0.05 is 50.       *)
(* Uuids are small integers; a fresh Uuid is the next unused integer.      *)
(* Time is a clock that every call of current_timestamp-reading code       *)
(* advances by one tick of 24 hours.                                       *)
(***************************************************************************)
EXTENDS Integers, Sequences, FiniteSets, TLC

VARIABLES
    fragments,          \* MemoryGraph.fragments: id -> MFragment
    edges,              \* MemoryGraph.edges: <<from, to>> -> Edge
    activation_index,   \* MemoryGraph.activation_index.by_keyword: key -> set of ids
    compiled_modules,   \* MemoryGraph.compiled_modules
    now,                \* current_timestamp(), in ticks
    next_id,            \* the next fresh fragment Uuid
    ops,                \* number of calls made so far (bounds the exploration)
    last,               \* the last call: its name and, for activation and
                        \* compilation, its context and return value
    start,              \* per fragment: its confidence at insertion, the number
                        \* of Success reinforcements it got, and whether nothing
                        \* else has been applied to it since its insertion
    eeg,                \* execute_eeg: the EEG being walked
    current_node_id,    \* execute_eeg: current_node_id
    visited,            \* execute_eeg: visited
    execution_trace,    \* execute_eeg: execution_trace
    fragment_outcomes,  \* execute_eeg: the outcome types in fragment_outcomes
    reinforcement_signals, \* execute_eeg: the fragment ids that got a signal
    pc,                 \* execute_eeg: "idle" before the call, "loop" in the
                        \* while loop, "done" once it has returned
    outcome,            \* execute_eeg: the returned outcome and the statement
                        \* that left the loop
    activation,         \* activate_fragments, step by step: the position of
                        \* the call, its context and the ids that take retained
    cur_activated,      \* activate_fragments: activated
    cur_to_explore,     \* activate_fragments: to_explore
    cur_explored,       \* activate_fragments: explored
    traversals,         \* activate_fragments: iterations of the for loop so far
    co_activation_patterns, \* MemoryGraph.co_activation_patterns
    co_calls,           \* the arguments of the record_co_activation calls so far
    pattern_report,     \* PatternReport.fossilization_candidates
    compiled_eeg,       \* the EEG the caller holds from its last compilation
    linter_input        \* LinterInput: execution_traces, compiled_eegs,
                        \* execution_results

exec_vars == <<eeg, current_node_id, visited, execution_trace, fragment_outcomes,
               reinforcement_signals, pc, outcome>>

expansion_vars == <<activation, cur_activated, cur_to_explore, cur_explored,
                    traversals>>

mining_vars == <<co_activation_patterns, co_calls, pattern_report>>

vars == <<fragments, edges, activation_index, compiled_modules, now, next_id,
          ops, last, start, exec_vars, expansion_vars, mining_vars,
          compiled_eeg, linter_input>>

-----------------------------------------------------------------------------
\* Bounds of the exploration.

MaxFragments == 2       \* fragments inserted in one run
MaxOps == 3             \* reinforce / decay / activate / compile calls in one run

-----------------------------------------------------------------------------
\* Fixed-point arithmetic.

Min(a, b) == IF a <= b THEN a ELSE b
Max(a, b) == IF a >= b THEN a ELSE b
Abs(a) == IF a >= 0 THEN a ELSE 0 - a

\* a * q for q in thousandths, rounded to the nearest thousandth.
MulFix(a, q) == (a * q + 500) \div 1000

\* k-th term of the series of e^f, f and the result in 1/10000.
RECURSIVE ExpTerm(_, _)
ExpTerm(f, k) == IF k = 0 THEN 10000 ELSE (ExpTerm(f, k - 1) * f) \div (k * 10000)

\* e^(-f) for 0 <= f < 1, f and the result in 1/10000.
ExpFrac(f) ==
    ExpTerm(f, 0) + ExpTerm(f, 2) + ExpTerm(f, 4) + ExpTerm(f, 6) + ExpTerm(f, 8)
    - ExpTerm(f, 1) - ExpTerm(f, 3) - ExpTerm(f, 5) - ExpTerm(f, 7)

\* e^(-n) for n = 0..7 in 1/100000.
ExpInt(n) == <<100000, 36788, 13534, 4979, 1832, 674, 248, 91>>[n + 1]

\* f64::exp(-x): x in 1/10000, the result in thousandths.
ExpNeg(x) ==
    IF x \div 10000 >= 8 THEN 0
    ELSE ((ExpInt(x \div 10000) * ExpFrac(x % 10000)) \div 10000 + 50) \div 100

-----------------------------------------------------------------------------
\* Inputs.

\* FragmentContent variants that the compiler distinguishes.
EntityRelation == "EntityRelation"
CausalRule == "CausalRule"

\* OutcomeType.
Success == "Success"
Failure == "Failure"
Partial == "Partial"
Uncertain == "Uncertain"
OutcomeTypes == {Success, Failure, Partial, Uncertain}

\* str::to_lowercase on the strings of the model.
ToLower(s) == IF s = "HTTP" THEN "http" ELSE s

\* Fragments as the callers build them: content, confidence, salience,
\* emotional_tag, decay_rate (in 1/1000 per second); reinforcement_count 0,
\* last_activated 0.0, empty activation_history.
Fragment(type, a, b, confidence, salience, decay_rate) ==
    [ fragment_type |-> type, a |-> a, b |-> b,
      confidence |-> confidence, salience |-> salience, emotional_tag |-> 0,
      reinforcement_count |-> 0, last_activated |-> 0,
      activation_history |-> <<>>, decay_rate |-> decay_rate ]

\* The decay_rate of an edge, in 1/1000 per second.
EdgeDecayRate == 1

Edge(strength, at) ==
    [strength |-> strength, decay_rate |-> EdgeDecayRate, last_reinforced |-> at]

\* What callers pass to insert_fragment for the fragment that gets Uuid id: the
\* fragment and its edge list.  An edge may name a Uuid that is stored later or
\* never.
InsertInputs(id, at) ==
    { <<Fragment(EntityRelation, "HTTP", "404", 800, 1000, 1), << >> >>,
      <<Fragment(CausalRule, "http", "error", 800, 1000, 1),
        (<<id, id + 1>> :> Edge(980, at))>>,
      <<Fragment(EntityRelation, "error", "404", 50, 50, 1),
        (<<id + 1, id>> :> Edge(980, at))>>,
      <<Fragment(CausalRule, "error", "retry", 450, 1000, 10), << >> >>,
      <<Fragment(CausalRule, "retry", "abort", 420, 0, 1),
        (<<id, id - 1>> :> Edge(15, at))>>,
      <<Fragment(EntityRelation, "http", "200", 1000, 300, 1), << >> >> }

\* decay_memory(delta_time), in seconds.
DeltaTimes == {0, 2000, 86400}

\* GoalSpec.description, with the words that str::contains finds in it.
Goal(description, words) == [description |-> description, words |-> words]

\* ContextVector: what activation and compilation read of it.
Context(goal, domain, tags, threshold, max_fragments, time_pressure) ==
    [ goal |-> goal, domain |-> domain, tags |-> tags, frustration |-> 400,
      confidence_threshold |-> threshold, max_fragments |-> max_fragments,
      time_pressure |-> time_pressure ]

\* A goal with the domain_hint of its context: the domain and its tags.
GoalsAndTags ==
    { <<Goal("http error", {"http", "error"}), "web", {"web"}>>,
      <<Goal("none", {"none"}), "HTTP", {"HTTP"}>> }
Thresholds == {400, 600}
TimePressures == {0, 500}
MaxFragmentsValues == {1, 2}

Contexts ==
    { Context(gt[1], gt[2], gt[3], t, m, p) :
        gt \in GoalsAndTags, t \in Thresholds, m \in MaxFragmentsValues,
        p \in TimePressures }

\* activate_fragments does not read time_pressure.
ActivationContexts == {c \in Contexts : c.time_pressure = 0}

\* Every string that is a key of the keyword index or is looked up in it.
Keys ==
    { "HTTP", "http", "error", "404", "200", "retry", "abort", "http_call",
      "http error", "none", "web" }

\* Uuids of fragments, stored or not.
Ids == 0..(MaxFragments + 1)

-----------------------------------------------------------------------------
\* MemoryGraph::new; no execute_eeg call has been made

\* A LinterInput without traces, EEGs and results
NoLinterInput ==
    [execution_traces |-> << >>, compiled_eegs |-> << >>, execution_results |-> << >>]

NoEEG == [nodes |-> << >>, edges |-> << >>, entry_point |-> 0, exit_points |-> << >>]

Init ==
    /\ fragments = << >>
    /\ edges = << >>
    /\ activation_index = [k \in Keys |-> {}]
    /\ compiled_modules = << >>
    /\ now = 1
    /\ next_id = 1
    /\ ops = 0
    /\ last = [op |-> "new"]
    /\ start = << >>
    /\ eeg = NoEEG
    /\ current_node_id = 0
    /\ visited = {}
    /\ execution_trace = << >>
    /\ fragment_outcomes = << >>
    /\ reinforcement_signals = << >>
    /\ pc = "idle"
    /\ outcome = [outcome_type |-> "none", left_by |-> "none"]
    /\ activation = [pc |-> "idle"]
    /\ cur_activated = {}
    /\ cur_to_explore = << >>
    /\ cur_explored = {}
    /\ traversals = 0
    /\ co_activation_patterns = << >>
    /\ co_calls = << >>
    /\ pattern_report = << >>
    /\ compiled_eeg = NoEEG
    /\ linter_input = NoLinterInput

-----------------------------------------------------------------------------
\* MemoryGraph::insert_fragment

\* update_activation_index: the keys a fragment is filed under.
IndexKeys(f) ==
    IF f.fragment_type = EntityRelation
    THEN {f.a, ToLower(f.a)}
    ELSE {f.a, ToLower(f.a), f.b, ToLower(f.b)}

update_activation_index(index, id, f) ==
    [k \in Keys |-> IF k \in IndexKeys(f) THEN index[k] \cup {id} ELSE index[k]]

\* HashMap::insert of every given edge: the last insert wins.
InsertEdges(es, fragment_edges) ==
    [k \in DOMAIN es \cup DOMAIN fragment_edges |->
        IF k \in DOMAIN fragment_edges THEN fragment_edges[k] ELSE es[k]]

\* The exploration makes its insertions first.
insert_fragment(f, fragment_edges) ==
    /\ next_id <= MaxFragments
    /\ ops = 0
    /\ pc = "idle"
    /\ fragments' = (next_id :> f) @@ fragments
    /\ activation_index' = update_activation_index(activation_index, next_id, f)
    /\ edges' = InsertEdges(edges, fragment_edges)
    /\ next_id' = next_id + 1
    /\ start' = (next_id :> [confidence |-> f.confidence, successes |-> 0,
                              only_success |-> TRUE]) @@ start
    /\ last' = [op |-> "insert"]
    /\ UNCHANGED <<compiled_modules, now, ops,
                 exec_vars, expansion_vars,
                   mining_vars, compiled_eeg,
                   linter_input>>

-----------------------------------------------------------------------------
\* MemoryGraph::reinforce_fragment

\* Mutants of ReinforceFragment: no clamp; a count on every outcome; a step of
\* 0.05 on Success.
ReinforceFragmentUnclamped(f, outcome_type) ==
    IF outcome_type = Success
    THEN [f EXCEPT !.confidence = @ + 100, !.reinforcement_count = @ + 1]
    ELSE IF outcome_type = Failure
    THEN [f EXCEPT !.confidence = @ - 50]
    ELSE f

ReinforceFragmentCountingAll(f, outcome_type) ==
    IF outcome_type = Success
    THEN [f EXCEPT !.confidence = Min(@ + 100, 1000),
                   !.reinforcement_count = @ + 1]
    ELSE IF outcome_type = Failure
    THEN [f EXCEPT !.confidence = Max(@ - 50, 0),
                   !.reinforcement_count = @ + 1]
    ELSE f

ReinforceFragmentSmallStep(f, outcome_type) ==
    IF outcome_type = Success
    THEN [f EXCEPT !.confidence = Min(@ + 50, 1000),
                   !.reinforcement_count = @ + 1]
    ELSE IF outcome_type = Failure
    THEN [f EXCEPT !.confidence = Max(@ - 50, 0)]
    ELSE f

ReinforceFragment(f, outcome_type) ==
    IF outcome_type = Success
    THEN [f EXCEPT !.confidence = Min(@ + 100, 1000),
                   !.reinforcement_count = @ + 1]
    ELSE IF outcome_type = Failure
    THEN [f EXCEPT !.confidence = Max(@ - 50, 0)]
    ELSE f

\* Mutant of ReinforceEdge: every edge is strengthened on Success.
ReinforceEveryEdge(key, e, id, outcome_type, at) ==
    IF outcome_type = Success
    THEN [e EXCEPT !.strength = Min(@ + 50, 1000), !.last_reinforced = at]
    ELSE e

ReinforceEdge(key, e, id, outcome_type, at) ==
    IF (key[1] = id \/ key[2] = id) /\ outcome_type = Success
    THEN [e EXCEPT !.strength = Min(@ + 50, 1000), !.last_reinforced = at]
    ELSE e

reinforce_fragment(id, outcome_type) ==
    /\ ops < MaxOps
    /\ ops' = ops + 1
    /\ fragments' =
         [i \in DOMAIN fragments |->
            IF i = id THEN ReinforceFragment(fragments[i], outcome_type)
            ELSE fragments[i]]
    /\ edges' =
         [k \in DOMAIN edges |-> ReinforceEdge(k, edges[k], id, outcome_type, now)]
    /\ start' =
         [i \in DOMAIN start |->
            IF i # id THEN start[i]
            ELSE IF outcome_type = Success
            THEN [start[i] EXCEPT !.successes = @ + 1]
            ELSE [start[i] EXCEPT !.only_success = FALSE]]
    /\ last' = [op |-> "reinforce", id |-> id, outcome_type |-> outcome_type]
    /\ UNCHANGED <<activation_index, compiled_modules, now, next_id,
                 exec_vars, expansion_vars,
                   mining_vars, compiled_eeg,
                   linter_input>>

-----------------------------------------------------------------------------
\* MemoryGraph::decay_memory

\* decay_rate * delta_time in 1/10000, for a decay_rate in 1/1000 per second
\* scaled by (1 - reduction), reduction = min(reinforcement_count * 0.99, 0.9999).
DecayExponent(decay_rate, reinforcement_count, delta_time) ==
    IF reinforcement_count = 0 THEN decay_rate * delta_time * 10
    ELSE IF reinforcement_count = 1 THEN (decay_rate * delta_time) \div 10
    ELSE (decay_rate * delta_time) \div 1000

\* Mutant of MinConfidence: the floor without its 0.1 margin.
MinConfidenceWithoutMargin(reinforcement_count) ==
    LET i_equivalent == Max(reinforcement_count - 1, 0)
        expected_min == 500 + i_equivalent * 50
    IN  Min(expected_min, 950)

MinConfidence(reinforcement_count) ==
    LET i_equivalent == Max(reinforcement_count - 1, 0)
        expected_min == 500 + i_equivalent * 50
    IN  Min(expected_min + 100, 950)

\* Mutant of DecayFragment: the floor applied to unreinforced fragments too.
DecayFragmentFlooringAll(f, delta_time) ==
    LET x == DecayExponent(f.decay_rate, f.reinforcement_count, delta_time)
    IN  [f EXCEPT
            !.salience = MulFix(@, ExpNeg(x)),
            !.confidence = Max(MulFix(@, ExpNeg(x \div 10)),
                               MinConfidence(f.reinforcement_count))]

DecayFragment(f, delta_time) ==
    LET x == DecayExponent(f.decay_rate, f.reinforcement_count, delta_time)
    IN  IF f.reinforcement_count > 0
        THEN [f EXCEPT
                !.salience = MulFix(@, ExpNeg(x)),
                !.confidence = Max(MulFix(@, ExpNeg(x \div 10)),
                                   MinConfidence(f.reinforcement_count))]
        ELSE [f EXCEPT
                !.salience = MulFix(@, ExpNeg(x)),
                !.confidence = MulFix(@, ExpNeg(x \div 10))]

\* Mutant of ShouldRemove: removal on low salience or low confidence.
ShouldRemoveOnEither(f) ==
    LET should_persist == f.reinforcement_count >= 1
    IN  ~should_persist /\ (f.salience < 10 \/ f.confidence < 100)

\* to_remove: the test made on a fragment after its decay.
ShouldRemove(f) ==
    LET should_persist == f.reinforcement_count >= 1
    IN  ~should_persist /\ f.salience < 10 /\ f.confidence < 100

DecayEdge(e, delta_time) ==
    [e EXCEPT !.strength = MulFix(@, ExpNeg(e.decay_rate * delta_time * 10))]

ShouldRemoveEdge(e) == e.strength < 10

decay_memory(delta_time) ==
    /\ ops < MaxOps
    /\ ops' = ops + 1
    /\ LET decayed == [i \in DOMAIN fragments |-> DecayFragment(fragments[i], delta_time)]
           decayed_edges == [k \in DOMAIN edges |-> DecayEdge(edges[k], delta_time)]
           kept == {i \in DOMAIN decayed : ~ShouldRemove(decayed[i])}
           kept_edges == {k \in DOMAIN decayed_edges : ~ShouldRemoveEdge(decayed_edges[k])}
       IN  /\ fragments' = [i \in kept |-> decayed[i]]
           /\ edges' = [k \in kept_edges |-> decayed_edges[k]]
           /\ last' = [op |-> "decay"]
    /\ start' = [i \in DOMAIN start |-> [start[i] EXCEPT !.only_success = FALSE]]
    /\ UNCHANGED <<activation_index, compiled_modules, now, next_id,
                 exec_vars, expansion_vars,
                   mining_vars, compiled_eeg,
                   linter_input>>

-----------------------------------------------------------------------------
\* MemoryGraph::activate_fragments

\* extract_goal_patterns: the patterns of a goal description.
extract_goal_patterns(goal) ==
    (IF "http" \in goal.words THEN {"http", "http_call"} ELSE {})
    \cup (IF "error" \in goal.words THEN {"error"} ELSE {})
    \cup goal.words
    \cup {ToLower(goal.description)}

\* candidates: the ids the index holds for the goal patterns and the tags.
\* by_goal and by_domain hold nothing for the fragment variants of the model.
Candidates(index, context) ==
    UNION { index[ToLower(pt)] : pt \in extract_goal_patterns(context.goal) }
    \cup UNION { index[tag] \cup index[ToLower(tag)] : tag \in context.tags }

\* calculate_relevance_score, in 1/10000; at is the time of the call.
calculate_relevance_score(f, context, at) ==
    3 * f.confidence
    + (IF f.last_activated > 0
       THEN 2 * ExpNeg((at - f.last_activated) * 10000) ELSE 0)
    + 2 * f.salience
    + (1000 - Abs(f.emotional_tag - context.frustration))
    + 2 * Min(f.reinforcement_count * 10, 1000)

\* Mutant of Scored: no confidence filter.
ScoredWithoutThreshold(frags, index, context) ==
    { id \in Candidates(index, context) : id \in DOMAIN frags }

\* scored: the candidates that are stored and reach the confidence threshold.
Scored(frags, index, context) ==
    { id \in Candidates(index, context) :
        /\ id \in DOMAIN frags
        /\ frags[id].confidence >= context.confidence_threshold }

\* Mutant of TopScored: no take(max_fragments).
TopScoredUntruncated(frags, scored, context, at) == {scored}

\* sort_by score descending, take(max_fragments): the sort is stable on the
\* iteration order of a HashSet, so candidates of equal score come in any order.
TopScored(frags, scored, context, at) ==
    { top \in SUBSET scored :
        /\ Cardinality(top) = Min(context.max_fragments, Cardinality(scored))
        /\ \A x \in top, y \in scored \ top :
              calculate_relevance_score(frags[x], context, at)
                >= calculate_relevance_score(frags[y], context, at) }

\* The orders in which a HashSet or HashMap may yield the elements of s.
Orders(s) ==
    { q \in [1..Cardinality(s) -> s] : \A i, j \in 1..Cardinality(s) : q[i] = q[j] => i = j }

\* One pass over self.edges for the popped id: the ids it adds to activated.
Reached(frags, es, context, current, activated) ==
    { id \in DOMAIN frags :
        /\ id \notin activated
        /\ \/ <<current, id>> \in DOMAIN es
           \/ <<id, current>> \in DOMAIN es /\ id # current
        /\ frags[id].confidence >= context.confidence_threshold }

\* Mutant of max_edge_traversal: the cap doubled.
TraversalCapDoubled == 10 + 10

max_edge_traversal == 10

\* The edge expansion: every set it may end with, for the iteration orders of
\* the edge map; steps counts the iterations left.
RECURSIVE Expand(_, _, _, _, _, _, _)
Expand(frags, es, context, activated, to_explore, explored, steps) ==
    IF steps = 0 \/ to_explore = << >> THEN {activated}
    ELSE LET current == to_explore[Len(to_explore)]
             rest == SubSeq(to_explore, 1, Len(to_explore) - 1)
         IN  IF current \in explored
             THEN Expand(frags, es, context, activated, rest, explored, steps - 1)
             ELSE LET added == Reached(frags, es, context, current, activated)
                  IN  UNION { Expand(frags, es, context, activated \cup added,
                                     rest \o q, explored \cup {current}, steps - 1) :
                              q \in Orders(added) }

\* Every set activate_fragments may return at time at.
Activations(frags, es, index, context, at) ==
    UNION { UNION { Expand(frags, es, context, top, q, {}, max_edge_traversal) :
                    q \in Orders(top) } :
            top \in TopScored(frags, Scored(frags, index, context), context, at) }

\* Mutant of Touch: every stored fragment is touched.
TouchEvery(frags, activated, at) ==
    [id \in DOMAIN frags |->
        [frags[id] EXCEPT !.last_activated = at,
                          !.activation_history = Append(@, at)]]

\* last_activated and activation_history of the activated fragments.
Touch(frags, activated, at) ==
    [id \in DOMAIN frags |->
        IF id \in activated
        THEN [frags[id] EXCEPT !.last_activated = at,
                               !.activation_history = Append(@, at)]
        ELSE frags[id]]

activate_fragments(context) ==
    /\ ops < MaxOps
    /\ ops' = ops + 1
    /\ now' = now + 1
    /\ \E activated \in Activations(fragments, edges, activation_index, context, now + 1) :
          /\ fragments' = Touch(fragments, activated, now + 1)
          /\ last' = [op |-> "activate", context |-> context, activated |-> activated]
    /\ UNCHANGED <<edges, activation_index, compiled_modules, next_id, start,
                 exec_vars, expansion_vars,
                   mining_vars, compiled_eeg,
                   linter_input>>

-----------------------------------------------------------------------------

Next ==
    \/ \E in \in InsertInputs(next_id, now) : insert_fragment(in[1], in[2])
    \/ \E id \in Ids, o \in OutcomeTypes : reinforce_fragment(id, o)
    \/ \E dt \in DeltaTimes : decay_memory(dt)
    \/ \E context \in ActivationContexts : activate_fragments(context)

Spec == Init /\ [][Next]_vars

-----------------------------------------------------------------------------
\* Claims about the memory graph, checked under Spec.

\* C1: the confidence and the salience of every stored fragment stay within
\* [0, 1] after any sequence of reinforce_fragment and decay_memory calls.
C1_ConfidenceSalienceInUnitInterval ==
    \A id \in DOMAIN fragments :
        /\ 0 <= fragments[id].confidence /\ fragments[id].confidence <= 1000
        /\ 0 <= fragments[id].salience /\ fragments[id].salience <= 1000

\* A fragment reinforced up to the clamp and then decayed.
C1_Witness ==
    /\ last.op = "decay"
    /\ \E id \in DOMAIN fragments :
          /\ start[id].successes >= 2
          /\ start[id].confidence + 100 * start[id].successes > 1000

\* C6: decay_memory removes a fragment exactly when, after its decay, its
\* reinforcement_count is 0, its salience below 0.01 and its confidence below
\* 0.1, so never a fragment with reinforcement_count >= 1; it removes an edge
\* exactly when its decayed strength is below 0.01, whatever happens to the
\* fragments at its ends.
C6_EvictionRule ==
    [][\A dt \in DeltaTimes :
         decay_memory(dt) =>
           /\ \A id \in DOMAIN fragments :
                LET d == DecayFragment(fragments[id], dt)
                IN  /\ id \notin DOMAIN fragments'
                       <=> /\ d.reinforcement_count = 0
                           /\ d.salience < 10
                           /\ d.confidence < 100
                    /\ fragments[id].reinforcement_count >= 1
                       => id \in DOMAIN fragments'
           /\ \A k \in DOMAIN edges :
                k \notin DOMAIN edges'
                  <=> MulFix(edges[k].strength,
                             ExpNeg(edges[k].decay_rate * dt * 10)) < 10
      ]_vars

\* A decay has evicted a fragment and kept an edge that names it, and another
\* fragment with salience below 0.01 is kept.
C6_Witness ==
    /\ last.op = "decay"
    /\ \E k \in DOMAIN edges :
          \E id \in {k[1], k[2]} : id \in DOMAIN start /\ id \notin DOMAIN fragments
    /\ \E id \in DOMAIN fragments : fragments[id].salience < 10

\* C7: reinforcement_count never decreases; a Success reinforcement of a
\* fragment adds exactly 1 to it, and every other call leaves it unchanged.
C7_ReinforcementCount ==
    [][/\ \A i \in DOMAIN fragments \cap DOMAIN fragments' :
            fragments'[i].reinforcement_count >= fragments[i].reinforcement_count
       /\ \A id \in Ids, o \in OutcomeTypes :
            reinforce_fragment(id, o) =>
              \A i \in DOMAIN fragments :
                 fragments'[i].reinforcement_count =
                    IF i = id /\ o = Success
                    THEN fragments[i].reinforcement_count + 1
                    ELSE fragments[i].reinforcement_count
       /\ last'.op \in {"decay", "activate"} =>
            \A i \in DOMAIN fragments' :
               fragments'[i].reinforcement_count = fragments[i].reinforcement_count
      ]_vars

\* A fragment that was reinforced, activated and then decayed.
C7_Witness ==
    /\ last.op = "decay"
    /\ \E id \in DOMAIN fragments :
          /\ fragments[id].reinforcement_count >= 1
          /\ Len(fragments[id].activation_history) >= 1

\* C8: after N Success reinforcements and nothing else, a fragment inserted
\* with confidence c and reinforcement_count 0 has confidence min(1, c + 0.1 N),
\* which is not below c, and reinforcement_count N.
C8_SuccessiveReinforcement ==
    \A id \in DOMAIN fragments :
        start[id].only_success =>
          /\ fragments[id].confidence =
               Min(1000, start[id].confidence + 100 * start[id].successes)
          /\ fragments[id].confidence >= start[id].confidence
          /\ fragments[id].reinforcement_count = start[id].successes

\* Three successive reinforcements, the last of them cut at 1.
C8_Witness ==
    \E id \in DOMAIN fragments :
        /\ start[id].only_success
        /\ start[id].successes = 3
        /\ start[id].confidence + 300 > 1000
        /\ start[id].confidence < 1000

\* C10 as claimed: activate_fragments never returns more than max_fragments
\* ids, with or without edges between fragments.
C10_AtMostMaxFragments ==
    last.op = "activate" =>
        Cardinality(last.activated) <= last.context.max_fragments

\* C10 as amended: on a memory graph without edges, activate_fragments never
\* returns more than max_fragments ids.
C10_AtMostMaxFragmentsWithoutEdges ==
    (last.op = "activate" /\ DOMAIN edges = {}) =>
        Cardinality(last.activated) <= last.context.max_fragments

\* An activation on a graph without edges that had more scored candidates than
\* max_fragments and returned max_fragments of them.
C10_Witness ==
    /\ last.op = "activate"
    /\ DOMAIN edges = {}
    /\ Cardinality(Scored(fragments, activation_index, last.context))
          > last.context.max_fragments
    /\ Cardinality(last.activated) = last.context.max_fragments

-----------------------------------------------------------------------------
\* execute_eeg (src/src/execution.rs): the EEGs it is given

MaxNodes == 2

\* Node ids; the ids above MaxNodes are never keys of eeg.nodes.
NodeIds == 1..(MaxNodes + 1)

FragmentNode == "FragmentNode"
ConflictNode == "ConflictNode"
GapFillNode == "GapFillNode"
DecisionNode == "DecisionNode"
ActionNode == "ActionNode"

\* EEGNode: its node_type, the variant of its content with what the walk reads
\* of it (the fragment_id of a Fragment, the target_node of every branch of a
\* Decision, the selected_fragment of a Conflict: empty for None) and its
\* confidence.
EEGNode(node_type, content, fragment_id, branches, selected_fragment, confidence) ==
    [ node_type |-> node_type, content |-> content, fragment_id |-> fragment_id,
      branches |-> branches, selected_fragment |-> selected_fragment,
      confidence |-> confidence ]

Targets == {<< >>} \cup { <<t>> : t \in NodeIds }

\* The last one is the node of create_eeg_from_module.
EEGNodes ==
    { EEGNode(FragmentNode, "Fragment", 1, << >>, << >>, 800),
      EEGNode(GapFillNode, "GapFill", 0, << >>, << >>, 500),
      EEGNode(ActionNode, "Action", 0, << >>, << >>, 800),
      EEGNode(FragmentNode, "Action", 0, << >>, << >>, 850) }
    \cup { EEGNode(DecisionNode, "Decision", 0, b, << >>, 800) : b \in Targets }
    \cup { EEGNode(ConflictNode, "Conflict", 0, << >>, s, 800) : s \in Targets }

\* EEGEdge: <<from_node, to_node>>; eeg.edges is a Vec of at most two.
EEGEdges == NodeIds \X NodeIds
EEGEdgeLists ==
    {<< >>} \cup { <<e>> : e \in EEGEdges } \cup { <<e, f>> : e \in EEGEdges, f \in EEGEdges }

\* Every EEG of 1..MaxNodes nodes: any contents, any edges and any entry
\* point, cyclic or dangling.  execute_eeg does not read exit_points.
EEGs ==
    UNION { [ nodes : [1..n -> EEGNodes], edges : EEGEdgeLists,
              entry_point : NodeIds, exit_points : {<<n>>} ] : n \in 1..MaxNodes }

\* The memory of a walk holds the well-known fragment or nothing.
ExecInsertInputs(id, at) ==
    { in \in InsertInputs(id, at) :
        in[1].confidence = 800 /\ in[1].fragment_type = EntityRelation }

-----------------------------------------------------------------------------
\* execute_eeg_with_context: one action per iteration of the while loop

interpret_fragment(f) == Success

\* Mutant of NextEdge: the last edge that leaves the node, not the first.
RECURSIVE LastEdge(_, _)
LastEdge(eeg_edges, id) ==
    IF eeg_edges = << >> THEN << >>
    ELSE IF eeg_edges[Len(eeg_edges)][1] = id THEN <<eeg_edges[Len(eeg_edges)]>>
    ELSE LastEdge(SubSeq(eeg_edges, 1, Len(eeg_edges) - 1), id)

\* eeg.edges.iter().find(|e| e.from_node == current_node_id)
RECURSIVE NextEdge(_, _)
NextEdge(eeg_edges, id) ==
    IF eeg_edges = << >> THEN << >>
    ELSE IF Head(eeg_edges)[1] = id THEN <<Head(eeg_edges)>>
    ELSE NextEdge(Tail(eeg_edges), id)

\* The outcome type computed after the loop.
OutcomeOf(trace, outcomes) ==
    IF outcomes # << >>
    THEN (IF Len(trace) > 1 THEN Success ELSE Partial)
    ELSE IF Len(trace) > 1 THEN Success ELSE Partial

\* Mutant of Interpreted: a Fragment node counts whether or not its fragment
\* is stored.
InterpretedUnchecked(node, frags) == node.content = "Fragment"

\* A Fragment node whose fragment memory.fragments.get finds.
Interpreted(node, frags) ==
    /\ node.content = "Fragment"
    /\ node.fragment_id \in DOMAIN frags

VisitedInsertNothing(v, id) == v
VisitedInsert(v, id) == v \cup {id}

VisitedNever(v, id) == FALSE
VisitedContains(v, id) == id \in v

execute_eeg(e) ==
    /\ pc = "idle"
    /\ eeg' = e
    /\ current_node_id' = e.entry_point
    /\ visited' = {}
    /\ execution_trace' = << >>
    /\ fragment_outcomes' = << >>
    /\ reinforcement_signals' = << >>
    /\ pc' = "loop"
    /\ UNCHANGED <<fragments, edges, activation_index, compiled_modules, now,
                   next_id, ops, last, start, outcome, expansion_vars,
                   mining_vars, compiled_eeg,
                   linter_input>>

\* Leaving the loop and returning the ExecutionResult.
Return(trace, outcomes, left_by) ==
    /\ pc' = "done"
    /\ outcome' = [outcome_type |-> OutcomeOf(trace, outcomes), left_by |-> left_by]

\* Mutant of MemoryAfterGet: the walk reinforces the fragment it interprets.
MemoryReinforcedByWalk(frags, fragment_id) ==
    [i \in DOMAIN frags |->
        IF i = fragment_id THEN ReinforceFragment(frags[i], Success) ELSE frags[i]]

\* memory.fragments.get(fragment_id) reads the map and leaves it as it is.
MemoryAfterGet(frags, fragment_id) == frags

execute_eeg_iteration ==
    /\ pc = "loop"
    /\ fragments' =
          IF /\ current_node_id \in DOMAIN eeg.nodes
             /\ ~VisitedContains(visited, current_node_id)
             /\ eeg.nodes[current_node_id].content = "Fragment"
          THEN MemoryAfterGet(fragments, eeg.nodes[current_node_id].fragment_id)
          ELSE fragments
    /\ IF current_node_id \notin DOMAIN eeg.nodes
       THEN /\ Return(execution_trace, fragment_outcomes, "no node")
            /\ UNCHANGED <<current_node_id, visited, execution_trace,
                           fragment_outcomes, reinforcement_signals>>
       ELSE IF VisitedContains(visited, current_node_id)
       THEN /\ Return(execution_trace, fragment_outcomes, "visited")
            /\ UNCHANGED <<current_node_id, visited, execution_trace,
                           fragment_outcomes, reinforcement_signals>>
       ELSE LET node == eeg.nodes[current_node_id]
                trace == Append(execution_trace, current_node_id)
                interpreted == Interpreted(node, fragments)
                outcomes ==
                    IF interpreted
                    THEN Append(fragment_outcomes,
                                interpret_fragment(fragments[node.fragment_id]))
                    ELSE fragment_outcomes
                next_edge == NextEdge(eeg.edges, current_node_id)
            IN  /\ visited' = VisitedInsert(visited, current_node_id)
                /\ execution_trace' = trace
                /\ fragment_outcomes' = outcomes
                /\ reinforcement_signals' =
                     IF interpreted
                        /\ interpret_fragment(fragments[node.fragment_id]) = Success
                     THEN Append(reinforcement_signals, node.fragment_id)
                     ELSE reinforcement_signals
                /\ IF node.content = "Decision" /\ node.branches # << >>
                   THEN /\ current_node_id' = Head(node.branches)
                        /\ UNCHANGED <<pc, outcome>>
                   ELSE IF node.content = "Conflict"
                           /\ node.selected_fragment # << >>
                   THEN /\ current_node_id' = Head(node.selected_fragment)
                        /\ UNCHANGED <<pc, outcome>>
                   ELSE IF next_edge # << >>
                   THEN /\ current_node_id' = next_edge[1][2]
                        /\ UNCHANGED <<pc, outcome>>
                   ELSE /\ Return(trace, outcomes, "no edge")
                        /\ UNCHANGED current_node_id
    /\ UNCHANGED <<edges, activation_index, compiled_modules, now,
                   next_id, ops, last, start, eeg, expansion_vars,
                   mining_vars, compiled_eeg,
                   linter_input>>

NextExec ==
    \/ \E in \in ExecInsertInputs(next_id, now) : insert_fragment(in[1], in[2])
    \/ pc = "idle" /\ \E e \in EEGs : execute_eeg(e)
    \/ execute_eeg_iteration

SpecExec == Init /\ [][NextExec]_vars

\* The loop runs in one thread until it leaves.
SpecExecFair == SpecExec /\ WF_vars(execute_eeg_iteration)

-----------------------------------------------------------------------------
\* Claims about execute_eeg, checked under SpecExec and SpecExecFair.

\* C2: execute_eeg terminates on every finite EEG, also when edges, Decision
\* branch targets or Conflict selected_fragment links form cycles, and the walk
\* visits at most as many nodes as the EEG has.
C2_TerminatesWithinNodes ==
    /\ [](Len(execution_trace) <= Cardinality(DOMAIN eeg.nodes))
    /\ (pc = "loop") ~> (pc = "done")

\* A walk around a cycle that a Decision branch and a Conflict link close,
\* ended by the visited set after every node was visited.
C2_Witness ==
    /\ pc = "done"
    /\ outcome.left_by = "visited"
    /\ Len(execution_trace) = MaxNodes
    /\ \E n \in DOMAIN eeg.nodes : eeg.nodes[n].content = "Decision"
    /\ \E n \in DOMAIN eeg.nodes : eeg.nodes[n].content = "Conflict"

\* C3: the execution_trace never holds the same node id twice, every id in it
\* is a key of eeg.nodes, and when entry_point is a node of the EEG it is the
\* first element of the returned trace.
C3_TraceOfDistinctNodes ==
    /\ \A i, j \in 1..Len(execution_trace) :
          execution_trace[i] = execution_trace[j] => i = j
    /\ \A i \in 1..Len(execution_trace) : execution_trace[i] \in DOMAIN eeg.nodes
    /\ (pc = "done" /\ eeg.entry_point \in DOMAIN eeg.nodes)
          => (execution_trace # << >> /\ execution_trace[1] = eeg.entry_point)

\* A returned walk that started at a node, followed an edge to a second node
\* and was led back to the first.
C3_Witness ==
    /\ pc = "done"
    /\ outcome.left_by = "visited"
    /\ Len(execution_trace) = MaxNodes
    /\ execution_trace[1] = eeg.entry_point
    /\ current_node_id = eeg.entry_point
    /\ NextEdge(eeg.edges, execution_trace[1]) # << >>

-----------------------------------------------------------------------------
\* Compiled modules (src/src/fossilization.rs)

MaxModules == 2
MaxCompiles == 2

\* CompiledModule: its activation_condition and its confidence.
Module(goal_patterns, domain_hints, confidence_threshold, confidence) ==
    [ goal_patterns |-> goal_patterns, domain_hints |-> domain_hints,
      confidence_threshold |-> confidence_threshold, confidence |-> confidence ]

Modules == { Module({"http"}, {}, 500, 850), Module({}, {"web"}, 0, 900) }

add_compiled_module(module) ==
    /\ Len(compiled_modules) < MaxModules
    /\ ops = 0
    /\ pc = "idle"
    /\ compiled_modules' = Append(compiled_modules, module)
    /\ last' = [op |-> "add_compiled_module"]
    /\ UNCHANGED <<fragments, edges, activation_index, now, next_id, ops, start,
                   exec_vars, expansion_vars,
                   mining_vars, compiled_eeg,
                   linter_input>>

module_matches_context(module, context) ==
    LET goal_lower == {ToLower(w) : w \in context.goal.words}
        matches_goal ==
            \/ \E pattern \in module.goal_patterns : pattern \in goal_lower
            \/ module.goal_patterns = {}
        matches_domain ==
            \/ context.domain \in module.domain_hints
            \/ module.domain_hints = {}
        matches_confidence ==
            context.confidence_threshold >= module.confidence_threshold
    IN  matches_goal /\ matches_domain /\ matches_confidence

\* Mutant of find_applicable_module: the last module that matches.
RECURSIVE FindLastApplicableModule(_, _)
FindLastApplicableModule(context, modules) ==
    IF modules = << >> THEN << >>
    ELSE IF module_matches_context(modules[Len(modules)], context)
    THEN <<modules[Len(modules)]>>
    ELSE FindLastApplicableModule(context, SubSeq(modules, 1, Len(modules) - 1))

\* The first module that matches, or none.
RECURSIVE find_applicable_module(_, _)
find_applicable_module(context, modules) ==
    IF modules = << >> THEN << >>
    ELSE IF module_matches_context(Head(modules), context) THEN <<Head(modules)>>
    ELSE find_applicable_module(context, Tail(modules))

-----------------------------------------------------------------------------
\* compile_thought (src/src/compiler.rs): the pipeline.  A fresh Uuid is the
\* next unused integer; fresh is the first one the step may use.

OrderedNode(id, node_type, order, confidence) ==
    [id |-> id, node_type |-> node_type, order |-> order, confidence |-> confidence]

\* check_conflict: two EntityRelation fragments with equal entity and relation
\* and different targets, or two CausalRule fragments with equal condition and
\* different outcomes.  The EntityRelation fragments of the model share one
\* relation.
check_conflict(frag1, frag2) ==
    /\ frag1.fragment_type = frag2.fragment_type
    /\ frag1.fragment_type \in {EntityRelation, CausalRule}
    /\ frag1.a = frag2.a
    /\ frag1.b # frag2.b

\* Mutant of resolve_conflicts: of two conflicting fragments only the one that
\* comes first in fragment_list is kept.
ResolveConflictsKeepingFirst(fragment_list, frags) ==
    LET stored == SelectSeq(fragment_list, LAMBDA id : id \in DOMAIN frags)
        first(id) == CHOOSE i \in 1..Len(stored) : stored[i] = id
    IN  SelectSeq(stored, LAMBDA id :
            \A i \in 1..Len(stored) :
                i < first(id) => ~check_conflict(frags[stored[i]], frags[id]))

\* fragment_list is activated in the iteration order of the HashSet.  The
\* conflicts that the step finds are dropped with its local vector.
resolve_conflicts(fragment_list, frags) ==
    SelectSeq(fragment_list, LAMBDA id : id \in DOMAIN frags)

fill_gaps(resolved, frags, fresh) ==
    LET found == SelectSeq(resolved, LAMBDA id : id \in DOMAIN frags)
        nodes == [i \in 1..Len(found) |->
                    OrderedNode(found[i], FragmentNode, i - 1, frags[found[i]].confidence)]
    IN  IF Len(nodes) < 3
        THEN Append(nodes, OrderedNode(fresh, GapFillNode, Len(nodes), 500))
        ELSE nodes

\* The confidence that sort_by compares.
SortConfidence(node, frags) ==
    IF node.id \in DOMAIN frags THEN frags[node.id].confidence ELSE node.confidence

\* Vec::sort_by is stable: a node goes behind the nodes that are not below it.
RECURSIVE SortByConfidence(_, _)
SortByConfidence(nodes, frags) ==
    IF nodes = << >> THEN << >>
    ELSE LET front == SortByConfidence(SubSeq(nodes, 1, Len(nodes) - 1), frags)
             node == nodes[Len(nodes)]
             before == Cardinality({i \in 1..Len(front) :
                          SortConfidence(front[i], frags) >= SortConfidence(node, frags)})
         IN  SubSeq(front, 1, before) \o <<node>> \o SubSeq(front, before + 1, Len(front))

order_fragments(ordered_nodes, frags) ==
    LET result == SortByConfidence(ordered_nodes, frags)
    IN  [i \in 1..Len(result) |-> [result[i] EXCEPT !.order = i - 1]]

\* A Decision node behind every node of a stored CausalRule fragment.
RECURSIVE add_branching(_, _, _, _)
add_branching(ordered, frags, fresh, branched) ==
    IF ordered = << >> THEN branched
    ELSE LET node == Head(ordered)
             pushed == Append(branched, node)
         IN  IF /\ node.node_type = FragmentNode
                /\ node.id \in DOMAIN frags
                /\ frags[node.id].fragment_type = CausalRule
             THEN add_branching(Tail(ordered), frags, fresh + 1,
                     Append(pushed, OrderedNode(fresh, DecisionNode, Len(pushed), 800)))
             ELSE add_branching(Tail(ordered), frags, fresh, pushed)

\* Mutant of prune_resources: nothing is dropped.
PruneNothing(branched, context) == branched

PruneThreshold(context) ==
    context.confidence_threshold + MulFix(context.time_pressure, 200)

prune_resources(branched, context) ==
    SelectSeq(branched, LAMBDA node : node.confidence >= PruneThreshold(context))

CreateNoNodeEEG(fresh) ==
    [nodes |-> << >>, edges |-> << >>, entry_point |-> fresh, exit_points |-> <<fresh>>]

create_empty_eeg(fresh) ==
    [ nodes |-> (fresh :> EEGNode(GapFillNode, "GapFill", 0, << >>, << >>, 300)),
      edges |-> << >>, entry_point |-> fresh, exit_points |-> <<fresh>> ]

create_eeg_from_module(module, fresh) ==
    [ nodes |-> (fresh :> EEGNode(FragmentNode, "Action", 0, << >>, << >>,
                                  module.confidence)),
      edges |-> << >>, entry_point |-> fresh, exit_points |-> <<fresh>> ]

\* The EEGNode that construct_eeg builds for a node of pruned.
ConstructNode(node, frags) ==
    IF node.node_type = FragmentNode
    THEN EEGNode(FragmentNode, "Fragment", node.id, << >>, << >>,
                 frags[node.id].confidence)
    ELSE IF node.node_type = GapFillNode
    THEN EEGNode(GapFillNode, "GapFill", 0, << >>, << >>, 500)
    ELSE EEGNode(DecisionNode, "Decision", 0, << >>, << >>, 800)

\* The nodes of pruned that the loop of construct_eeg does not skip.
Constructed(pruned, frags) ==
    SelectSeq(pruned, LAMBDA node :
        /\ node.node_type \in {FragmentNode, GapFillNode, DecisionNode}
        /\ node.node_type = FragmentNode => node.id \in DOMAIN frags)

ExitPointsWithoutFallback(pruned, frags) ==
    LET last_order == SelectSeq(Constructed(pruned, frags),
                                LAMBDA node : node.order = Len(pruned) - 1)
    IN  [i \in 1..Len(last_order) |-> last_order[i].id]

\* exit_points: the nodes whose order is the last index, else the last node.
ExitPoints(pruned, frags) ==
    LET pushed == ExitPointsWithoutFallback(pruned, frags)
    IN  IF pushed = << >> THEN <<pruned[Len(pruned)].id>> ELSE pushed

construct_eeg(pruned, frags, fresh) ==
    IF pruned = << >> THEN create_empty_eeg(fresh)
    ELSE LET built == Constructed(pruned, frags)
         IN  [ nodes |-> [id \in {built[i].id : i \in 1..Len(built)} |->
                            ConstructNode(CHOOSE node \in {built[i] : i \in 1..Len(built)} :
                                              node.id = id, frags)],
               edges |-> [i \in 1..(Len(pruned) - 1) |-> <<pruned[i].id, pruned[i + 1].id>>],
               entry_point |-> pruned[1].id,
               exit_points |-> ExitPoints(pruned, frags) ]

\* From the activated fragments to the EEG, with the next unused Uuid.
Pipeline(fragment_list, frags, context, fresh) ==
    LET resolved == resolve_conflicts(fragment_list, frags)
        filled == fill_gaps(resolved, frags, fresh)
        ordered == order_fragments(filled, frags)
        branched == add_branching(ordered, frags, fresh + Len(filled) - Len(resolved),
                                  << >>)
        pruned == prune_resources(branched, context)
        used == fresh + Len(branched) - Len(resolved)
    IN  [ eeg |-> construct_eeg(pruned, frags, used),
          next_id |-> IF pruned = << >> THEN used + 1 ELSE used ]

\* Every result of the call without an applicable module at time at: the
\* activated set, the EEG and the next unused Uuid.
CompileOutcomes(frags, es, index, context, at, fresh) ==
    UNION { IF activated = {}
            THEN {[activated |-> {}, eeg |-> create_empty_eeg(fresh), next_id |-> fresh + 1]}
            ELSE { [activated |-> activated] @@
                   Pipeline(fragment_list, Touch(frags, activated, at), context, fresh) :
                   fragment_list \in Orders(activated) } :
            activated \in Activations(frags, es, index, context, at) }

\* compiled_modules is empty for None and holds the slice for Some.
compile_thought_with_modules(context, modules) ==
    /\ ops < MaxCompiles
    /\ pc = "idle"
    /\ ops' = ops + 1
    /\ LET module == IF modules = << >> THEN << >>
                     ELSE find_applicable_module(context, modules[1])
       IN  IF module # << >>
           THEN /\ last' = [ op |-> "compile", context |-> context, modules |-> modules,
                             from_module |-> TRUE, activated |-> {},
                             eeg |-> create_eeg_from_module(module[1], next_id) ]
                /\ compiled_eeg' = create_eeg_from_module(module[1], next_id)
                /\ next_id' = next_id + 1
                /\ UNCHANGED <<fragments, now>>
           ELSE /\ now' = now + 1
                /\ \E r \in CompileOutcomes(fragments, edges, activation_index, context,
                                            now + 1, next_id) :
                      /\ fragments' = Touch(fragments, r.activated, now + 1)
                      /\ next_id' = r.next_id
                      /\ last' = [ op |-> "compile", context |-> context,
                                   modules |-> modules, from_module |-> FALSE,
                                   activated |-> r.activated, eeg |-> r.eeg ]
                      /\ compiled_eeg' = r.eeg
    /\ UNCHANGED <<edges, activation_index, compiled_modules, start, exec_vars,
                   expansion_vars, mining_vars,
                   linter_input>>

compile_thought(context) == compile_thought_with_modules(context, << >>)

\* The memory is built, reinforced or decayed once, and compiled from.
NextCompile ==
    \/ \E in \in InsertInputs(next_id, now) : insert_fragment(in[1], in[2])
    \/ \E module \in Modules : add_compiled_module(module)
    \/ ops = 0 /\ \E id \in Ids, o \in OutcomeTypes : reinforce_fragment(id, o)
    \/ ops = 0 /\ \E dt \in DeltaTimes : decay_memory(dt)
    \/ \E context \in Contexts : compile_thought(context)
    \/ \E context \in Contexts : compile_thought_with_modules(context, <<compiled_modules>>)

SpecCompile == Init /\ [][NextCompile]_vars

-----------------------------------------------------------------------------
\* Claims about the compiler, checked under SpecCompile.

NodeCount(e) == Cardinality(DOMAIN e.nodes)

\* C4: every EEG that compile_thought or compile_thought_with_modules returns
\* is structurally valid: its node map is not empty, entry_point is a key of
\* nodes, exit_points is not empty and holds keys of nodes only, and both ends
\* of every edge are keys of nodes.
C4_CompiledEEGIsValid ==
    last.op = "compile" =>
        LET e == last.eeg
        IN  /\ DOMAIN e.nodes # {}
            /\ e.entry_point \in DOMAIN e.nodes
            /\ e.exit_points # << >>
            /\ \A i \in 1..Len(e.exit_points) : e.exit_points[i] \in DOMAIN e.nodes
            /\ \A i \in 1..Len(e.edges) :
                  e.edges[i][1] \in DOMAIN e.nodes /\ e.edges[i][2] \in DOMAIN e.nodes

\* A compiled chain of a fragment, its Decision and the GapFill node, of which
\* no node has the order of the last index, so that the last node is taken as
\* the exit point.
C4_Witness ==
    /\ last.op = "compile"
    /\ ~last.from_module
    /\ NodeCount(last.eeg) = 3
    /\ Len(last.eeg.edges) = 2
    /\ \E id \in DOMAIN last.eeg.nodes : last.eeg.nodes[id].content = "Decision"
    /\ last.eeg.nodes[last.eeg.exit_points[1]].content = "GapFill"

\* C5: when activation returns no fragment, as on a MemoryGraph without
\* fragments, compile_thought returns an EEG of exactly one node: a GapFill
\* node of confidence 0.3 that is the entry_point and the only exit point, and
\* no edges.
C5_EmptyActivationGivesGapFill ==
    (last.op = "compile" /\ ~last.from_module /\ last.activated = {}) =>
        LET e == last.eeg
        IN  /\ NodeCount(e) = 1
            /\ e.entry_point \in DOMAIN e.nodes
            /\ e.nodes[e.entry_point].node_type = GapFillNode
            /\ e.nodes[e.entry_point].content = "GapFill"
            /\ e.nodes[e.entry_point].confidence = 300
            /\ e.exit_points = <<e.entry_point>>
            /\ e.edges = << >>

\* compile_thought on a memory that stores fragments, none of which the
\* activation returns.
C5_Witness ==
    /\ last.op = "compile"
    /\ last.modules = << >>
    /\ last.activated = {}
    /\ fragments # << >>
    /\ NodeCount(last.eeg) = 1

\* C9: compile_thought is monotonic in time_pressure: on the same memory and
\* for the same context apart from time_pressure, no compilation with a larger
\* time_pressure has more nodes than a compilation with a smaller one.
C9_MonotonicInTimePressure ==
    [][(last'.op = "compile" /\ ops' = ops + 1 /\ last'.modules = << >>) =>
          \A larger \in Contexts :
             ( /\ larger.time_pressure > last'.context.time_pressure
               /\ larger = [last'.context EXCEPT !.time_pressure = larger.time_pressure] )
             => \A r \in CompileOutcomes(fragments, edges, activation_index, larger,
                                         now + 1, next_id) :
                    NodeCount(r.eeg) <= NodeCount(last'.eeg)]_vars

-----------------------------------------------------------------------------
\* Further claims about the memory graph, checked under Spec.

\* C16: reinforce_fragment changes only what its outcome type allows.  With
\* Partial or Uncertain the memory graph is unchanged.  With Failure only the
\* confidence of the target changes (minus 0.05, not below 0).  With Success
\* only the target (confidence, reinforcement_count) and the edges that have
\* the target as an endpoint (strength plus 0.05, not above 1) change.
C16_ReinforceFrame ==
    [][\A id \in Ids, o \in OutcomeTypes :
          reinforce_fragment(id, o) =>
            /\ DOMAIN fragments' = DOMAIN fragments
            /\ DOMAIN edges' = DOMAIN edges
            /\ UNCHANGED <<activation_index, compiled_modules>>
            /\ \A i \in DOMAIN fragments : i # id => fragments'[i] = fragments[i]
            /\ o \in {Partial, Uncertain} => UNCHANGED <<fragments, edges>>
            /\ o = Failure =>
                  /\ UNCHANGED edges
                  /\ id \in DOMAIN fragments =>
                        fragments'[id] =
                          [fragments[id] EXCEPT !.confidence =
                              IF @ >= 50 THEN @ - 50 ELSE 0]
            /\ o = Success =>
                  /\ id \in DOMAIN fragments =>
                        fragments'[id] =
                          [fragments[id] EXCEPT
                              !.confidence = IF @ <= 900 THEN @ + 100 ELSE 1000,
                              !.reinforcement_count = @ + 1]
                  /\ \A k \in DOMAIN edges :
                        IF k[1] = id \/ k[2] = id
                        THEN /\ edges'[k].strength =
                                  (IF edges[k].strength <= 950
                                   THEN edges[k].strength + 50 ELSE 1000)
                             /\ edges'[k].decay_rate = edges[k].decay_rate
                        ELSE edges'[k] = edges[k]]_vars

\* A Success on a fragment with an edge of its own, next to a fragment and an
\* edge that the call leaves alone.
C16_Witness ==
    /\ last.op = "reinforce"
    /\ \E id \in DOMAIN fragments :
          /\ start[id].successes = 1
          /\ \E k, g \in DOMAIN edges :
                /\ (k[1] = id \/ k[2] = id) /\ edges[k].strength = 65
                /\ g[1] # id /\ g[2] # id /\ edges[g].strength = 980

\* C17: an activate_fragments call appends exactly one timestamp to the
\* activation_history of every fragment it returns and sets its last_activated
\* to it; it shortens no history and changes nothing else: no confidence,
\* salience or reinforcement_count, no fragment that is not returned, no edge.
C17_ActivationFrame ==
    [][(last'.op = "activate" /\ ops' = ops + 1) =>
          /\ DOMAIN fragments' = DOMAIN fragments
          /\ UNCHANGED <<edges, activation_index, compiled_modules>>
          /\ \A id \in DOMAIN fragments :
                IF id \in last'.activated
                THEN /\ Len(fragments'[id].activation_history)
                          = Len(fragments[id].activation_history) + 1
                     /\ SubSeq(fragments'[id].activation_history, 1,
                               Len(fragments[id].activation_history))
                          = fragments[id].activation_history
                     /\ fragments'[id].last_activated
                          = fragments'[id].activation_history[
                               Len(fragments'[id].activation_history)]
                     /\ [fragments'[id] EXCEPT
                            !.activation_history = fragments[id].activation_history,
                            !.last_activated = fragments[id].last_activated]
                          = fragments[id]
                ELSE fragments'[id] = fragments[id]]_vars

\* The second call that returns a fragment, next to a fragment that neither
\* call returned.
C17_Witness ==
    /\ last.op = "activate"
    /\ \E id \in last.activated, other \in DOMAIN fragments :
          /\ Len(fragments[id].activation_history) = 2
          /\ other \notin last.activated
          /\ fragments[other].activation_history = << >>

\* C11: every id that activate_fragments returns names a stored fragment whose
\* confidence is at least context.confidence_threshold, for scored candidates
\* and for ids added by the edge expansion, also when the index or the edge
\* map still holds ids of evicted fragments.
C11_ActivatedAreStoredAndConfident ==
    last.op = "activate" =>
        \A id \in last.activated :
            /\ id \in DOMAIN fragments
            /\ fragments[id].confidence >= last.context.confidence_threshold

\* An activation after an eviction: the evicted fragment is still a candidate
\* of the index, and an edge leads from a returned fragment to it.
C11_Witness ==
    /\ last.op = "activate"
    /\ \E id \in Candidates(activation_index, last.context) : id \notin DOMAIN fragments
    /\ \E a \in last.activated : \E e \in DOMAIN edges :
          \/ e[1] = a /\ e[2] \in DOMAIN start /\ e[2] \notin DOMAIN fragments
          \/ e[2] = a /\ e[1] \in DOMAIN start /\ e[1] \notin DOMAIN fragments

-----------------------------------------------------------------------------
\* activate_fragments step by step (src/src/memory.rs), on memories whose
\* edges form a chain or a ring long enough for the traversal cap to cut.

MaxChain == 12

ChainFragment == Fragment(EntityRelation, "HTTP", "404", 800, 1000, 1)

\* The edges inserted with fragment id of a chain (a ring if cyclic) of n.
ChainEdges(id, n, cyclic) ==
    IF id < n THEN (<<id, id + 1>> :> Edge(980, 1))
    ELSE IF cyclic /\ n > 1 THEN (<<n, 1>> :> Edge(980, 1))
    ELSE << >>

\* The memory after insert_fragment of the first k fragments of the chain.
RECURSIVE ChainMemory(_, _, _)
ChainMemory(n, cyclic, k) ==
    IF k = 0
    THEN [fragments |-> << >>, edges |-> << >>, index |-> [key \in Keys |-> {}]]
    ELSE LET m == ChainMemory(n, cyclic, k - 1)
         IN  [ fragments |-> (k :> ChainFragment) @@ m.fragments,
               edges |-> InsertEdges(m.edges, ChainEdges(k, n, cyclic)),
               index |-> update_activation_index(m.index, k, ChainFragment) ]

InitChain ==
    /\ \E n \in 1..MaxChain, cyclic \in BOOLEAN :
          LET m == ChainMemory(n, cyclic, n)
          IN  /\ fragments = m.fragments
              /\ edges = m.edges
              /\ activation_index = m.index
              /\ next_id = n + 1
              /\ start = [id \in 1..n |-> [confidence |-> ChainFragment.confidence,
                                           successes |-> 0, only_success |-> TRUE]]
    /\ compiled_modules = << >>
    /\ now = 1
    /\ ops = 0
    /\ last = [op |-> "insert"]
    /\ eeg = NoEEG
    /\ current_node_id = 0
    /\ visited = {}
    /\ execution_trace = << >>
    /\ fragment_outcomes = << >>
    /\ reinforcement_signals = << >>
    /\ pc = "idle"
    /\ outcome = [outcome_type |-> "none", left_by |-> "none"]
    /\ activation = [pc |-> "idle"]
    /\ cur_activated = {}
    /\ cur_to_explore = << >>
    /\ cur_explored = {}
    /\ traversals = 0
    /\ co_activation_patterns = << >>
    /\ co_calls = << >>
    /\ pattern_report = << >>
    /\ compiled_eeg = NoEEG
    /\ linter_input = NoLinterInput

\* The contexts whose domain tag finds the fragments of the chain.
ChainContexts == {c \in ActivationContexts : "HTTP" \in c.tags}

\* Candidates, scored, sort and take, and the first to_explore.
activate_fragments_scored(context) ==
    /\ activation.pc = "idle"
    /\ now' = now + 1
    /\ \E top \in TopScored(fragments, Scored(fragments, activation_index, context),
                            context, now + 1) :
          \E q \in Orders(top) :
             /\ activation' = [pc |-> "expand", context |-> context, retained |-> top]
             /\ cur_activated' = top
             /\ cur_to_explore' = q
    /\ cur_explored' = {}
    /\ traversals' = 0
    /\ UNCHANGED <<fragments, edges, activation_index, compiled_modules, next_id,
                   ops, last, start, exec_vars,
                   mining_vars, compiled_eeg,
                   linter_input>>

\* One iteration of the for loop that pops an id.
activate_fragments_traverse ==
    /\ activation.pc = "expand"
    /\ traversals < max_edge_traversal
    /\ cur_to_explore # << >>
    /\ traversals' = traversals + 1
    /\ LET current == cur_to_explore[Len(cur_to_explore)]
           rest == SubSeq(cur_to_explore, 1, Len(cur_to_explore) - 1)
       IN  IF current \in cur_explored
           THEN /\ cur_to_explore' = rest
                /\ UNCHANGED <<cur_activated, cur_explored>>
           ELSE \E q \in Orders(Reached(fragments, edges, activation.context, current,
                                        cur_activated)) :
                   /\ cur_activated' = cur_activated \cup {q[i] : i \in 1..Len(q)}
                   /\ cur_to_explore' = rest \o q
                   /\ cur_explored' = cur_explored \cup {current}
    /\ UNCHANGED <<fragments, edges, activation_index, compiled_modules, now,
                   next_id, ops, last, start, exec_vars, activation,
                   mining_vars, compiled_eeg,
                   linter_input>>

\* The loop is left, by the range or by the break; the activated fragments
\* are touched and the set is returned.
activate_fragments_return ==
    /\ activation.pc = "expand"
    /\ traversals >= max_edge_traversal \/ cur_to_explore = << >>
    /\ fragments' = Touch(fragments, cur_activated, now)
    /\ last' = [op |-> "activate", context |-> activation.context,
                activated |-> cur_activated]
    /\ activation' = [activation EXCEPT !.pc = "returned"]
    /\ UNCHANGED <<edges, activation_index, compiled_modules, now, next_id, ops,
                   start, exec_vars, cur_activated, cur_to_explore, cur_explored,
                   traversals,
                   mining_vars, compiled_eeg,
                   linter_input>>

NextChain ==
    \/ \E context \in ChainContexts : activate_fragments_scored(context)
    \/ activate_fragments_traverse
    \/ activate_fragments_return

SpecChain == InitChain /\ [][NextChain]_vars

\* The call runs in one thread until it returns.
SpecChainFair ==
    SpecChain /\ WF_vars(activate_fragments_traverse) /\ WF_vars(activate_fragments_return)

\* C12: at most max_fragments scored candidates are retained before the edge
\* expansion, the expansion makes at most 10 traversal steps whatever the size
\* or cyclicity of the edge graph, and activate_fragments terminates.
C12_BoundedExpansionTerminates ==
    /\ [](activation.pc # "idle" =>
            /\ Cardinality(activation.retained) <= activation.context.max_fragments
            /\ traversals <= 10)
    /\ (activation.pc = "expand") ~> (activation.pc = "returned")

\* A call on a ring that the cap cuts: ten steps made, ids left to explore.
C12_Witness ==
    /\ activation.pc = "returned"
    /\ traversals = 10
    /\ cur_to_explore # << >>
    /\ Cardinality(activation.retained) = activation.context.max_fragments
    /\ \E e \in DOMAIN edges : e[1] > e[2]

-----------------------------------------------------------------------------
\* Further claims about execute_eeg, checked under SpecExec.

\* C13: execute_eeg returns the outcome type Success if and only if at least
\* one Fragment node produced a fragment outcome and the trace has more than
\* one node, and Partial in every other case; so a Success result carries at
\* least one reinforcement signal.
C13_SuccessIffFragmentOutcome ==
    pc = "done" =>
        /\ outcome.outcome_type = Success
              <=> (fragment_outcomes # << >> /\ Len(execution_trace) > 1)
        /\ outcome.outcome_type # Success => outcome.outcome_type = Partial
        /\ outcome.outcome_type = Success => reinforcement_signals # << >>

-----------------------------------------------------------------------------
\* Further claims about the compiler, checked under SpecCompile.

\* C14: once a compiled module is registered in the MemoryGraph, every later
\* compile_thought call on that graph whose context matches the module's
\* activation condition returns the single-node EEG that wraps a registered
\* module, without running the pipeline.
C14_RegisteredModulesShortCircuit ==
    ( /\ last.op = "compile"
      /\ last.modules = << >>
      /\ find_applicable_module(last.context, compiled_modules) # << >> )
    => /\ last.from_module
       /\ NodeCount(last.eeg) = 1
       /\ \E i \in 1..Len(compiled_modules) :
             /\ module_matches_context(compiled_modules[i], last.context)
             /\ last.eeg.nodes[last.eeg.entry_point].content = "Action"
             /\ last.eeg.nodes[last.eeg.entry_point].confidence
                  = compiled_modules[i].confidence

\* C15: compile_thought_with_modules with a module list takes the fast path
\* exactly when some module satisfies the three conditions: goal_patterns is
\* empty or holds a substring of the lower-cased goal, domain_hints is empty or
\* holds the domain of the context, and the context's confidence_threshold is
\* at least the module's.  The EEG is then one node, entry and only exit,
\* without edges, with the confidence of the first matching module of the
\* list, and no fragment is activated or changed.  Otherwise the pipeline runs.
C15_FastPath ==
    [][(last'.op = "compile" /\ ops' = ops + 1 /\ last'.modules # << >>) =>
          LET context == last'.context
              modules == last'.modules[1]
              e == last'.eeg
              matching ==
                { i \in 1..Len(modules) :
                    /\ \/ modules[i].goal_patterns = {}
                       \/ \E pattern \in modules[i].goal_patterns :
                             pattern \in {ToLower(w) : w \in context.goal.words}
                    /\ \/ modules[i].domain_hints = {}
                       \/ context.domain \in modules[i].domain_hints
                    /\ context.confidence_threshold >= modules[i].confidence_threshold }
          IN  /\ last'.from_module <=> matching # {}
              /\ matching # {} =>
                    /\ NodeCount(e) = 1
                    /\ e.entry_point \in DOMAIN e.nodes
                    /\ e.exit_points = <<e.entry_point>>
                    /\ e.edges = << >>
                    /\ \E first \in matching :
                          /\ \A i \in matching : first <= i
                          /\ e.nodes[e.entry_point].confidence = modules[first].confidence
                    /\ UNCHANGED <<fragments, edges, activation_index, compiled_modules>>
              /\ matching = {} =>
                    \E r \in CompileOutcomes(fragments, edges, activation_index, context,
                                             now + 1, next_id) :
                       /\ e = r.eeg
                       /\ fragments' = Touch(fragments, r.activated, now + 1)]_vars

\* A fast path over a memory that stores fragments: two modules of different
\* confidence match the context.
C15_Witness ==
    /\ last.op = "compile"
    /\ last.from_module
    /\ fragments # << >>
    /\ Len(last.modules[1]) = 2
    /\ module_matches_context(last.modules[1][1], last.context)
    /\ module_matches_context(last.modules[1][2], last.context)
    /\ last.modules[1][1].confidence # last.modules[1][2].confidence

(***************************************************************************)
(* Fossilization candidate selection (fossilization.rs).  Scores are in    *)
(* thousandths, estimated_speedup included (2000 stands for 2.0).          *)
(***************************************************************************)
MaxReport == 3

FossilizationCandidate(repetition_count, average_confidence, context_variance, reward_correlation, estimated_speedup, priority) ==
    [pattern_id         |-> 0,
     repetition_count   |-> repetition_count,
     average_confidence |-> average_confidence,
     context_variance   |-> context_variance,
     reward_correlation |-> reward_correlation,
     estimated_speedup  |-> estimated_speedup,
     priority           |-> priority]

\* Candidates a PatternReport may carry: four that meet the default
\* thresholds (two of them on the boundary, two with equal priority) and one
\* that misses each threshold by the smallest step.
Candidates18 ==
    { FossilizationCandidate(15, 900, 200, 800, 3000, 950),
      FossilizationCandidate(10, 800, 300, 700, 2000, 700),
      FossilizationCandidate(12, 850, 100, 900, 2500, 700),
      FossilizationCandidate(20, 950, 0, 1000, 5000, 400),
      FossilizationCandidate(9, 900, 200, 800, 3000, 990),
      FossilizationCandidate(15, 799, 200, 800, 3000, 800),
      FossilizationCandidate(15, 900, 301, 800, 3000, 600),
      FossilizationCandidate(15, 900, 200, 699, 3000, 300),
      FossilizationCandidate(15, 900, 200, 800, 1999, 980) }

FossilizationConfig(max_candidates_per_run) ==
    [min_repetition         |-> 10,
     min_confidence         |-> 800,
     max_context_variance   |-> 300,
     min_reward_correlation |-> 700,
     min_speedup            |-> 2000,
     max_candidates_per_run |-> max_candidates_per_run]

FossilizationConfigs == { FossilizationConfig(m) : m \in {0, 1, 2, 5} }

\* The report's generator appends one candidate; pattern_id tells apart two
\* candidates with equal figures.
push_candidate(c) ==
    /\ Len(pattern_report) < MaxReport
    /\ pattern_report' =
           Append(pattern_report, [c EXCEPT !.pattern_id = Len(pattern_report) + 1])
    /\ UNCHANGED <<fragments, edges, activation_index, compiled_modules, now,
                   next_id, ops, last, start, exec_vars, expansion_vars,
                   co_activation_patterns, co_calls, compiled_eeg,
                   linter_input>>

MeetsThresholds(candidate, config) ==
    /\ candidate.repetition_count >= config.min_repetition
    /\ candidate.average_confidence >= config.min_confidence
    /\ candidate.context_variance <= config.max_context_variance
    /\ candidate.reward_correlation >= config.min_reward_correlation
    /\ candidate.estimated_speedup >= config.min_speedup

\* the for loop with its push: the qualifying candidates in report order
FilterCandidates(report, config) ==
    SelectSeq(report, LAMBDA c : MeetsThresholds(c, config))

\* mutant of SortByPriority: the filtered candidates are left in report order
KeepReportOrder(candidates) == candidates

\* Vec::sort_by on b.priority.partial_cmp(a.priority): stable, descending
RECURSIVE SortByPriority(_)
SortByPriority(candidates) ==
    IF Len(candidates) <= 1 THEN candidates
    ELSE LET n      == Len(candidates)
             x      == candidates[n]
             sorted == SortByPriority(SubSeq(candidates, 1, n - 1))
             k      == Cardinality({ i \in 1..(n - 1) :
                                       sorted[i].priority >= x.priority })
         IN  SubSeq(sorted, 1, k) \o <<x>> \o SubSeq(sorted, k + 1, n - 1)

Truncate(s, len) == SubSeq(s, 1, Min(len, Len(s)))

SelectCandidates(report, config) ==
    Truncate(SortByPriority(FilterCandidates(report, config)),
             config.max_candidates_per_run)

select_fossilization_candidates(config) ==
    /\ last' = [op       |-> "select",
                report   |-> pattern_report,
                config   |-> config,
                selected |-> SelectCandidates(pattern_report, config)]
    /\ UNCHANGED <<fragments, edges, activation_index, compiled_modules, now,
                   next_id, ops, start, exec_vars, expansion_vars,
                   mining_vars, compiled_eeg,
                   linter_input>>

NextFossilization ==
    \/ \E c \in Candidates18 : push_candidate(c)
    \/ \E config \in FossilizationConfigs : select_fossilization_candidates(config)

SpecFossilization == Init /\ [][NextFossilization]_vars

Qualifying18(report, config) ==
    { i \in 1..Len(report) :
        /\ report[i].repetition_count >= config.min_repetition
        /\ report[i].average_confidence >= config.min_confidence
        /\ report[i].context_variance <= config.max_context_variance
        /\ report[i].reward_correlation >= config.min_reward_correlation
        /\ report[i].estimated_speedup >= config.min_speedup }

\* C18: select_fossilization_candidates returns only candidates of the report
\* that meet all five thresholds, each at most once, ordered by priority
\* descending; its length is the smaller of max_candidates_per_run and the
\* number of qualifying candidates, and every qualifying candidate it drops
\* has a priority no higher than every candidate it returns.
C18_SelectsTopQualifying ==
    last.op = "select" =>
        LET report   == last.report
            config   == last.config
            selected == last.selected
            Q        == Qualifying18(report, config)
            kept     == { i \in Q : \E j \in 1..Len(selected) : selected[j] = report[i] }
        IN  /\ \A j \in 1..Len(selected) : \E i \in Q : selected[j] = report[i]
            /\ \A j, k \in 1..Len(selected) : j # k => selected[j] # selected[k]
            /\ \A j, k \in 1..Len(selected) :
                   j < k => selected[j].priority >= selected[k].priority
            /\ Len(selected) = Min(config.max_candidates_per_run, Cardinality(Q))
            /\ \A i \in Q \ kept : \A j \in 1..Len(selected) :
                   report[i].priority <= selected[j].priority

\* The cap cut a qualifying candidate, the report held a candidate of higher
\* priority than every returned one that misses a threshold, and the
\* qualifying candidates were not in priority order in the report.
C18_Witness ==
    /\ last.op = "select"
    /\ Len(last.selected) >= 1
    /\ Len(last.selected) < Cardinality(Qualifying18(last.report, last.config))
    /\ \E i \in 1..Len(last.report) :
           /\ i \notin Qualifying18(last.report, last.config)
           /\ last.report[i].priority > last.selected[1].priority
    /\ \E i, k \in Qualifying18(last.report, last.config) :
           i < k /\ last.report[i].priority < last.report[k].priority

(***************************************************************************)
(* Co-activation patterns (memory.rs)                                      *)
(***************************************************************************)
MaxRecords == 3
MaxIds == 3

\* The slices callers pass: up to MaxIds ids, in any order, repeats and an id
\* that is not stored included.
RECURSIVE IdSeqs(_)
IdSeqs(n) ==
    IF n = 0 THEN { << >> }
    ELSE LET shorter == IdSeqs(n - 1)
         IN  shorter \cup { Append(s, id) : s \in { t \in shorter : Len(t) = n - 1 },
                                            id \in 1..(MaxFragments + 1) }

CoActivationArgs == IdSeqs(MaxIds)

CoActivationPattern(fragment_ids, activation_count, average_confidence, at) ==
    [fragment_ids       |-> fragment_ids,
     activation_count   |-> activation_count,
     average_confidence |-> average_confidence,
     last_activated     |-> at,
     formatting_pattern |-> "None"]

\* mutant of SortIds: the slice is compared and stored as it was passed
KeepIdOrder(ids) == ids

\* Vec::sort on Uuids: ascending
RECURSIVE SortIds(_)
SortIds(ids) ==
    IF Len(ids) <= 1 THEN ids
    ELSE LET n      == Len(ids)
             x      == ids[n]
             sorted == SortIds(SubSeq(ids, 1, n - 1))
             k      == Cardinality({ i \in 1..(n - 1) : sorted[i] <= x })
         IN  SubSeq(sorted, 1, k) \o <<x>> \o SubSeq(sorted, k + 1, n - 1)

\* fragment_ids.iter().filter_map(|id| fragments.get(id).map(|f| f.confidence)).sum()
RECURSIVE TotalConfidence(_, _)
TotalConfidence(frags, ids) ==
    IF ids = << >> THEN 0
    ELSE (IF Head(ids) \in DOMAIN frags THEN frags[Head(ids)].confidence ELSE 0)
         + TotalConfidence(frags, Tail(ids))

\* iter_mut().find(|p| p.fragment_ids == fragment_ids_sorted): the first match,
\* 0 for None
FindPattern(patterns, fragment_ids_sorted) ==
    LET hits == { i \in 1..Len(patterns) :
                    patterns[i].fragment_ids = fragment_ids_sorted }
    IN  IF hits = {} THEN 0 ELSE CHOOSE i \in hits : \A j \in hits : i <= j

RecordCoActivation(patterns, frags, fragment_ids, at) ==
    IF Len(fragment_ids) < 2 THEN patterns
    ELSE LET fragment_ids_sorted == SortIds(fragment_ids)
             i       == FindPattern(patterns, fragment_ids_sorted)
             average == TotalConfidence(frags, fragment_ids) \div Len(fragment_ids)
         IN  IF i # 0
             THEN [patterns EXCEPT
                      ![i].activation_count   = @ + 1,
                      ![i].last_activated     = at,
                      ![i].average_confidence = (@ + average) \div 2]
             ELSE Append(patterns,
                         CoActivationPattern(fragment_ids_sorted, 1, average, at))

record_co_activation(fragment_ids) ==
    /\ Len(co_calls) < MaxRecords
    /\ co_activation_patterns' =
           RecordCoActivation(co_activation_patterns, fragments, fragment_ids, now)
    /\ co_calls' = Append(co_calls, fragment_ids)
    /\ last' = [op |-> "record_co_activation", fragment_ids |-> fragment_ids]
    /\ UNCHANGED <<fragments, edges, activation_index, compiled_modules, now,
                   next_id, ops, start, exec_vars, expansion_vars,
                   pattern_report, compiled_eeg,
                   linter_input>>

NextCoActivation ==
    \/ \E in \in ExecInsertInputs(next_id, now) : insert_fragment(in[1], in[2])
    \/ \E fragment_ids \in CoActivationArgs : record_co_activation(fragment_ids)

SpecCoActivation == Init /\ [][NextCoActivation]_vars

\* s and t hold the same ids the same number of times
SameIds(s, t) ==
    /\ Len(s) = Len(t)
    /\ \A id \in 1..(MaxFragments + 1) :
           Cardinality({ i \in 1..Len(s) : s[i] = id })
               = Cardinality({ i \in 1..Len(t) : t[i] = id })

\* C19: record_co_activation is order-insensitive.  After any sequence of
\* calls no two patterns hold the same id list, every pattern's id list is
\* sorted, its activation_count is the number of calls made with those ids in
\* any order, every call with two or more ids has its pattern, and a call
\* with fewer than 2 ids changes nothing in the memory graph.
C19_OnePatternPerIdSet ==
    /\ [](/\ \A i, j \in 1..Len(co_activation_patterns) :
                 i # j => co_activation_patterns[i].fragment_ids
                             # co_activation_patterns[j].fragment_ids
          /\ \A i \in 1..Len(co_activation_patterns) :
               LET p == co_activation_patterns[i]
               IN  /\ \A a, b \in 1..Len(p.fragment_ids) :
                          a < b => p.fragment_ids[a] <= p.fragment_ids[b]
                   /\ p.activation_count =
                          Cardinality({ k \in 1..Len(co_calls) :
                                          /\ Len(co_calls[k]) >= 2
                                          /\ SameIds(co_calls[k], p.fragment_ids) })
          /\ \A k \in 1..Len(co_calls) :
               Len(co_calls[k]) >= 2 =>
                   \E i \in 1..Len(co_activation_patterns) :
                       SameIds(co_calls[k], co_activation_patterns[i].fragment_ids))
    /\ [][(/\ Len(co_calls') = Len(co_calls) + 1
           /\ Len(co_calls'[Len(co_calls')]) < 2)
              => UNCHANGED <<co_activation_patterns, fragments, edges,
                             activation_index, compiled_modules>>]_vars

\* Two calls passed the same two or more ids in different orders and one
\* pattern counts both, next to a pattern for other ids and a call with fewer
\* than 2 ids.
C19_Witness ==
    /\ \E k, l \in 1..Len(co_calls) :
           /\ k # l
           /\ co_calls[k] # co_calls[l]
           /\ SameIds(co_calls[k], co_calls[l])
           /\ \E i \in 1..Len(co_activation_patterns) :
                  /\ SameIds(co_calls[k], co_activation_patterns[i].fragment_ids)
                  /\ co_activation_patterns[i].activation_count = 2
    /\ \E k \in 1..Len(co_calls) : Len(co_calls[k]) < 2
    /\ fragments # << >>

\* C20: in every EEG built by the compilation pipeline, exit_points is exactly
\* the set of nodes that have no outgoing edge: no node listed in exit_points
\* is the from_node of an edge, and every node without an outgoing edge is
\* listed.
C20_ExitPointsHaveNoOutgoingEdge ==
    (last.op = "compile" /\ ~last.from_module /\ last.activated # {}) =>
        LET e == last.eeg
            exits == { e.exit_points[i] : i \in 1..Len(e.exit_points) }
            from_nodes == { e.edges[i][1] : i \in 1..Len(e.edges) }
        IN  /\ exits \cap from_nodes = {}
            /\ exits = DOMAIN e.nodes \ from_nodes

(***************************************************************************)
(* Claims about decay_memory and reinforce_fragment, checked under Spec    *)
(***************************************************************************)

\* C21: decay_memory(dt >= 0) is a reduction: after the call every surviving
\* fragment's confidence and salience are less than or equal to their values
\* before the call, for reinforced as well as unreinforced fragments.
C21_DecayIsReduction ==
    [][last'.op = "decay" =>
          \A id \in DOMAIN fragments' :
              /\ fragments'[id].salience <= fragments[id].salience
              /\ fragments'[id].confidence <= fragments[id].confidence]_vars

\* C21 as the code has it: decay_memory never raises a salience, never raises
\* the confidence of an unreinforced fragment, and leaves the confidence of a
\* fragment with reinforcement_count k >= 1 at or below the larger of its
\* value before the call and the floor min(0.6 + 0.05 * (k - 1), 0.95).
C21_DecayIsReductionUpToFloor ==
    [][last'.op = "decay" =>
          \A id \in DOMAIN fragments' :
              LET k == fragments[id].reinforcement_count
              IN  /\ fragments'[id].salience <= fragments[id].salience
                  /\ k = 0 => fragments'[id].confidence <= fragments[id].confidence
                  /\ k >= 1 => fragments'[id].confidence
                                  <= Max(fragments[id].confidence,
                                         Min(600 + 50 * (k - 1), 950))]_vars

\* A decay has raised a reinforced fragment to its floor (its confidence is
\* above what its insertion and its Success reinforcements account for) and
\* has lowered an unreinforced fragment.
C21_Witness ==
    /\ last.op = "decay"
    /\ \E id \in DOMAIN fragments :
          /\ fragments[id].reinforcement_count >= 1
          /\ fragments[id].confidence
                 > start[id].confidence + 100 * start[id].successes
    /\ \E id \in DOMAIN fragments :
          /\ fragments[id].reinforcement_count = 0
          /\ fragments[id].confidence < start[id].confidence
          /\ fragments[id].salience < 1000

------------------------------------------------------------------------------
\* decay_memory and reinforce_fragment on memories with a history: one
\* fragment that has been reinforced and weakened many times, next to an
\* unreinforced one.

\* A fragment after count Success reinforcements and the Failure
\* reinforcements and decays that brought it to confidence.
ReinforcedFragment(confidence, count, decay_rate) ==
    [Fragment(EntityRelation, "HTTP", "404", confidence, 1000, decay_rate)
        EXCEPT !.reinforcement_count = count]

ReinforcedFragments ==
    { ReinforcedFragment(confidence, count, decay_rate) :
        confidence \in {50, 620, 1000}, count \in {0, 1, 2, 5, 8, 9, 50},
        decay_rate \in {1, 10} }

UnreinforcedFragment == Fragment(CausalRule, "error", "retry", 450, 1000, 10)

InitDecay ==
    /\ \E f \in ReinforcedFragments :
          /\ fragments = (1 :> f) @@ (2 :> UnreinforcedFragment)
          /\ activation_index =
                 update_activation_index(
                     update_activation_index([k \in Keys |-> {}], 1, f),
                     2, UnreinforcedFragment)
          /\ start = (1 :> [confidence |-> f.confidence,
                            successes |-> f.reinforcement_count,
                            only_success |-> FALSE])
                     @@ (2 :> [confidence |-> UnreinforcedFragment.confidence,
                               successes |-> 0, only_success |-> TRUE])
    /\ edges = (<<1, 2>> :> Edge(980, 1))
    /\ next_id = 3
    /\ compiled_modules = << >>
    /\ now = 1
    /\ ops = 0
    /\ last = [op |-> "insert"]
    /\ eeg = NoEEG
    /\ current_node_id = 0
    /\ visited = {}
    /\ execution_trace = << >>
    /\ fragment_outcomes = << >>
    /\ reinforcement_signals = << >>
    /\ pc = "idle"
    /\ outcome = [outcome_type |-> "none", left_by |-> "none"]
    /\ activation = [pc |-> "idle"]
    /\ cur_activated = {}
    /\ cur_to_explore = << >>
    /\ cur_explored = {}
    /\ traversals = 0
    /\ co_activation_patterns = << >>
    /\ co_calls = << >>
    /\ pattern_report = << >>
    /\ compiled_eeg = NoEEG
    /\ linter_input = NoLinterInput

NextDecay ==
    \/ \E id \in Ids, o \in OutcomeTypes : reinforce_fragment(id, o)
    \/ \E dt \in DeltaTimes : decay_memory(dt)

SpecDecay == InitDecay /\ [][NextDecay]_vars

------------------------------------------------------------------------------
\* Claims about the edge expansion of activate_fragments, checked under Spec

\* C23: the edge expansion follows only edges whose strength is above
\* context.confidence_threshold: every returned id is a scored candidate or
\* is joined to another returned id by an edge stronger than the threshold.
C23_ExpansionFollowsStrongEdges ==
    last.op = "activate" =>
        \A id \in last.activated :
            \/ id \in Scored(fragments, activation_index, last.context)
            \/ \E k \in DOMAIN edges :
                  /\ \/ k[1] = id /\ k[2] \in last.activated \ {id}
                     \/ k[2] = id /\ k[1] \in last.activated \ {id}
                  /\ edges[k].strength > last.context.confidence_threshold

------------------------------------------------------------------------------
\* Further claims about the compilation pipeline, checked under SpecCompile

\* The EEG of create_empty_eeg: one GapFill node of confidence 0.3, no edge.
IsEmptyEEG(e) ==
    /\ NodeCount(e) = 1
    /\ e.edges = << >>
    /\ \A id \in DOMAIN e.nodes :
          e.nodes[id].node_type = GapFillNode /\ e.nodes[id].confidence = 300

\* C24: every node of an EEG produced by the full compilation pipeline has
\* confidence >= confidence_threshold + 0.2 * time_pressure; the only returned
\* EEG that may hold a node below that bound is the single-GapFill (0.3)
\* fallback.
C24_NodesMeetPruneThreshold ==
    (last.op = "compile" /\ ~last.from_module) =>
        \/ IsEmptyEEG(last.eeg)
        \/ \A id \in DOMAIN last.eeg.nodes :
              last.eeg.nodes[id].confidence
                  >= last.context.confidence_threshold
                       + (last.context.time_pressure * 200) \div 1000

\* A compilation whose pruning dropped the node of an activated fragment and
\* the GapFill node and kept other nodes.
C24_Witness ==
    /\ last.op = "compile"
    /\ ~last.from_module
    /\ \E id \in last.activated : id \notin DOMAIN last.eeg.nodes
    /\ \A id \in DOMAIN last.eeg.nodes : last.eeg.nodes[id].node_type # GapFillNode
    /\ \E id \in DOMAIN last.eeg.nodes : last.eeg.nodes[id].node_type = FragmentNode
    /\ NodeCount(last.eeg) >= 2

------------------------------------------------------------------------------
\* The whole pipeline on one memory: fragments are inserted, one is
\* reinforced, a thought is compiled, the memory decays, the caller executes
\* the EEG it holds and applies the returned signals.

execute_compiled ==
    /\ compiled_eeg # NoEEG
    /\ execute_eeg(compiled_eeg)

NextPipeline ==
    \/ \E in \in InsertInputs(next_id, now) : insert_fragment(in[1], in[2])
    \/ ops = 0 /\ \E id \in Ids : reinforce_fragment(id, Success)
    \/ \E context \in Contexts : compile_thought(context)
    \/ pc = "idle" /\ compiled_eeg # NoEEG /\ \E dt \in DeltaTimes : decay_memory(dt)
    \/ execute_compiled
    \/ execute_eeg_iteration
    \/ pc = "done" /\ \E i \in 1..Len(reinforcement_signals) :
          reinforce_fragment(reinforcement_signals[i], outcome.outcome_type)

SpecPipeline == Init /\ [][NextPipeline]_vars

\* The walk runs in one thread until it leaves.
SpecPipelineFair == SpecPipeline /\ WF_vars(execute_eeg_iteration)

\* The nodes of the trace whose fragment memory.fragments.get finds
StoredFragmentNodes(trace) ==
    { i \in 1..Len(trace) :
        /\ eeg.nodes[trace[i]].content = "Fragment"
        /\ eeg.nodes[trace[i]].fragment_id \in DOMAIN fragments }

\* C25: when fragments referenced by a compiled EEG are evicted by
\* decay_memory between compile_thought and execute_eeg, the execution still
\* completes: the node of an evicted fragment is in the trace and contributes
\* no fragment outcome and no reinforcement signal, so every reinforcement
\* signal names a fragment present in memory at execution time.
C25_EvictedFragmentsAreSkipped ==
    /\ [](pc \in {"loop", "done"} =>
            /\ \A i \in 1..Len(reinforcement_signals) :
                   reinforcement_signals[i] \in DOMAIN fragments
            /\ Len(fragment_outcomes) = Cardinality(StoredFragmentNodes(execution_trace))
            /\ Len(reinforcement_signals)
                   = Cardinality(StoredFragmentNodes(execution_trace)))
    /\ (pc = "loop" ~> pc = "done")

\* A finished walk over a compiled EEG of which one fragment was evicted after
\* the compilation and another is still stored: both nodes are in the trace.
C25_Witness ==
    /\ pc = "done"
    /\ last.op = "decay"
    /\ \E i \in 1..Len(execution_trace) :
          /\ eeg.nodes[execution_trace[i]].content = "Fragment"
          /\ eeg.nodes[execution_trace[i]].fragment_id \notin DOMAIN fragments
    /\ reinforcement_signals # << >>

------------------------------------------------------------------------------
\* Claims about the steps of execute_eeg, checked under SpecExec

\* The positions in eeg.edges of the edges that leave node id
EdgesFrom(id) == { i \in 1..Len(eeg.edges) : eeg.edges[i][1] = id }

\* C26: the successor of a node is the first branch's target_node after a
\* Decision node with branches and the selected_fragment after a Conflict
\* node that has one, regardless of the edges; for every other node it is the
\* to_node of the first edge in eeg.edges whose from_node is the current node.
\* The walk ends when there is no such edge, or when the chosen successor is
\* not a node of the EEG or was already visited.
C26_SuccessorChoice ==
    [][pc = "loop" =>
         IF current_node_id \notin DOMAIN eeg.nodes \/ current_node_id \in visited
         THEN pc' = "done" /\ execution_trace' = execution_trace
         ELSE LET node == eeg.nodes[current_node_id]
                  from == EdgesFrom(current_node_id)
              IN  /\ execution_trace' = Append(execution_trace, current_node_id)
                  /\ IF node.content = "Decision" /\ node.branches # << >>
                     THEN pc' = "loop" /\ current_node_id' = node.branches[1]
                     ELSE IF node.content = "Conflict" /\ node.selected_fragment # << >>
                     THEN pc' = "loop" /\ current_node_id' = node.selected_fragment[1]
                     ELSE IF from # {}
                     THEN /\ pc' = "loop"
                          /\ \E i \in from :
                                /\ \A j \in from : i <= j
                                /\ current_node_id' = eeg.edges[i][2]
                     ELSE pc' = "done"]_vars

\* A finished walk: a Decision node jumped to its first branch's target while
\* its own first edge leads elsewhere, the target's first edge led back, and
\* the walk ended on the visited node.
C26_Witness ==
    /\ pc = "done"
    /\ outcome.left_by = "visited"
    /\ Len(execution_trace) = 2
    /\ LET node == eeg.nodes[execution_trace[1]]
       IN  /\ node.content = "Decision"
           /\ node.branches # << >>
           /\ node.branches[1] = execution_trace[2]
           /\ \E i \in EdgesFrom(execution_trace[1]) :
                 eeg.edges[i][2] # execution_trace[2]
    /\ eeg.nodes[execution_trace[2]].content \notin {"Decision", "Conflict"}
    /\ EdgesFrom(execution_trace[2]) # {}

------------------------------------------------------------------------------
\* Compilation from memories that hold conflicting fragments

\* What callers insert: two CausalRule fragments on one condition with
\* different outcomes, two EntityRelation fragments on one entity with
\* different targets, and a weaker third rule on the same condition.
ConflictInputs ==
    { <<Fragment(CausalRule, "http", "error", 800, 1000, 1), << >> >>,
      <<Fragment(CausalRule, "http", "retry", 700, 1000, 1), << >> >>,
      <<Fragment(CausalRule, "http", "abort", 450, 1000, 1), << >> >>,
      <<Fragment(EntityRelation, "HTTP", "404", 800, 1000, 1), << >> >>,
      <<Fragment(EntityRelation, "HTTP", "200", 800, 1000, 1), << >> >> }

NextConflict ==
    \/ \E in \in ConflictInputs : insert_fragment(in[1], in[2])
    \/ ops = 0 /\ \E id \in Ids, o \in {Success, Failure} : reinforce_fragment(id, o)
    \/ \E context \in Contexts : compile_thought(context)

SpecConflict == Init /\ [][NextConflict]_vars

\* C27: conflict detection in compile_thought never removes or replaces a
\* fragment: every activated fragment that passes the confidence pruning is a
\* Fragment node of the EEG, conflicting fragments included, every Fragment
\* node is an activated fragment, and no EEG produced by the compiler contains
\* a Conflict node.
C27_ConflictsAreNotActedOn ==
    last.op = "compile" =>
        LET e == last.eeg
            bound == last.context.confidence_threshold
                       + (last.context.time_pressure * 200) \div 1000
        IN  /\ \A id \in DOMAIN e.nodes :
                  /\ e.nodes[id].node_type # ConflictNode
                  /\ e.nodes[id].content # "Conflict"
                  /\ e.nodes[id].content = "Fragment" =>
                        id \in last.activated /\ e.nodes[id].fragment_id = id
            /\ \A id \in last.activated :
                  fragments[id].confidence >= bound =>
                      /\ id \in DOMAIN e.nodes
                      /\ e.nodes[id].content = "Fragment"
                      /\ e.nodes[id].fragment_id = id

\* A compiled EEG that holds the Fragment nodes of two conflicting fragments.
C27_Witness ==
    /\ last.op = "compile"
    /\ \E x, y \in last.activated :
          /\ x # y
          /\ fragments[x].fragment_type = CausalRule
          /\ fragments[y].fragment_type = CausalRule
          /\ fragments[x].a = fragments[y].a
          /\ fragments[x].b # fragments[y].b
          /\ {x, y} \subseteq DOMAIN last.eeg.nodes
          /\ last.eeg.nodes[x].content = "Fragment"
          /\ last.eeg.nodes[y].content = "Fragment"

(***************************************************************************)
(* The pattern linter (linter.rs).  Confidences, ratios and rates are in   *)
(* thousandths, estimated_speedup included.                                *)
(***************************************************************************)
MaxRuns == 2
MaxLints == 1

\* ExecutionTrace: what the linter reads of it; context stands for
\* context.goal.description, branch_decisions is the HashMap.
ExecutionTrace(node_sequence, timestamp, branch_decisions, context) ==
    [node_sequence |-> node_sequence, timestamp |-> timestamp,
     branch_decisions |-> branch_decisions, context |-> context]

\* ExecutionResult: execution_trace, confidence and outcome.outcome_type
ExecutionResult(node_sequence, confidence, outcome_type) ==
    [execution_trace |-> node_sequence, confidence |-> confidence,
     outcome_type |-> outcome_type]

\* EEG: what the linter reads of its metadata
CompiledEEG(compilation_timestamp, confidence_score) ==
    [compilation_timestamp |-> compilation_timestamp,
     confidence_score |-> confidence_score]

\* What a caller collects from one compile_thought and execute_eeg: the
\* trace, and in a one-element list or not at all the EEG and the result.
Run(trace, eegs, results) == [trace |-> trace, eegs |-> eegs, results |-> results]

Runs ==
    { Run(ExecutionTrace(<<1, 2>>, 1, << >>, "a"),
          <<CompiledEEG(1, 900)>>, <<ExecutionResult(<<1, 2>>, 900, Success)>>),
      Run(ExecutionTrace(<<1, 2>>, 0, << >>, "b"),
          << >>, <<ExecutionResult(<<1, 2>>, 500, Failure)>>),
      Run(ExecutionTrace(<<1, 2, 1>>, 1, (1 :> 2), "a"),
          <<CompiledEEG(1, 800)>>, <<ExecutionResult(<<1, 2, 1>>, 950, Success)>>),
      Run(ExecutionTrace(<<2, 1>>, 1, (1 :> 1), "a"), << >>, << >>),
      Run(ExecutionTrace(<<2, 1>>, 0, (1 :> 2), "b"),
          <<CompiledEEG(0, 600)>>, <<ExecutionResult(<<2, 1>>, 800, Partial)>>),
      Run(ExecutionTrace(<<1, 1>>, 1, << >>, "a"),
          << >>, <<ExecutionResult(<<1, 1>>, 1000, Success)>>),
      Run(ExecutionTrace(<<3>>, 1, << >>, "b"),
          << >>, <<ExecutionResult(<<3>>, 500, Uncertain)>>),
      Run(ExecutionTrace(<< >>, 1, << >>, "a"), << >>, << >>) }

\* The caller pushes the trace, the EEG and the result of one run.
push_run(r) ==
    /\ Len(linter_input.execution_traces) < MaxRuns
    /\ linter_input' =
           [execution_traces  |-> Append(linter_input.execution_traces, r.trace),
            compiled_eegs     |-> linter_input.compiled_eegs \o r.eegs,
            execution_results |-> linter_input.execution_results \o r.results]
    /\ UNCHANGED <<fragments, edges, activation_index, compiled_modules, now,
                   next_id, ops, last, start, exec_vars, expansion_vars,
                   mining_vars, compiled_eeg>>

\* LinterConfig with the defaults of the fields the model does not vary
LinterConfig(min_occurrences, min_path_length, min_speedup) ==
    [min_occurrences        |-> min_occurrences,
     min_path_length        |-> min_path_length,
     min_confidence         |-> 700,
     min_branch_ratio       |-> 800,
     min_context_variance   |-> 300,
     min_reward_correlation |-> 700,
     min_speedup            |-> min_speedup]

LinterConfigs ==
    { LinterConfig(o, l, s) : o \in {1, 2, 3, 5}, l \in {1, 2, 3}, s \in {100, 2000} }

\* time_window: << >> for None, <<w>> for Some(w)
TimeWindows == { << >>, <<0>> }

RECURSIVE SumSeq(_)
SumSeq(s) == IF s = << >> THEN 0 ELSE Head(s) + SumSeq(Tail(s))

\* Every order of the elements of a finite set
RECURSIVE Orderings(_)
Orderings(S) ==
    IF S = {} THEN { << >> }
    ELSE UNION { { <<x>> \o p : p \in Orderings(S \ {x}) } : x \in S }

\* extract_subpaths: the slices sequence[start..end] with
\* end >= start + min_length, as <<start, end>> with 0-based start
extract_subpaths(sequence, min_length) ==
    { se \in (0..(Len(sequence) - 1)) \X (0..Len(sequence)) :
        se[2] >= se[1] + min_length }

Slice(sequence, se) == SubSeq(sequence, se[1] + 1, se[2])

\* The indices of the traces that yield path, each as often as it yields it,
\* in the order of the pushes on path_contexts
RECURSIVE PathTraces(_, _, _, _)
PathTraces(traces, path, min_length, i) ==
    IF i > Len(traces) THEN << >>
    ELSE LET n == Cardinality({ se \in extract_subpaths(traces[i].node_sequence, min_length) :
                                  Slice(traces[i].node_sequence, se) = path })
         IN  [k \in 1..n |-> i] \o PathTraces(traces, path, min_length, i + 1)

\* results.iter().find(|r| r.execution_trace == trace.node_sequence)
FindResult(results, node_sequence) ==
    LET hits == { i \in 1..Len(results) : results[i].execution_trace = node_sequence }
    IN  IF hits = {} THEN << >>
        ELSE <<results[CHOOSE i \in hits : \A j \in hits : i <= j]>>

RECURSIVE ResultsOf(_, _, _)
ResultsOf(traces, results, occurrences) ==
    IF occurrences = << >> THEN << >>
    ELSE FindResult(results, traces[Head(occurrences)].node_sequence)
         \o ResultsOf(traces, results, Tail(occurrences))

calculate_path_confidence(results) ==
    IF results = << >> THEN 0
    ELSE SumSeq([i \in 1..Len(results) |-> results[i].confidence]) \div Len(results)

calculate_success_rate(results) ==
    IF results = << >> THEN 0
    ELSE (1000 * Cardinality({ i \in 1..Len(results) :
                                 results[i].outcome_type = Success }))
         \div Len(results)

PathPattern(traces, results, path, min_length) ==
    LET occurrences == PathTraces(traces, path, min_length, 1)
        results_for_path == ResultsOf(traces, results, occurrences)
    IN  [path               |-> path,
         occurrence_count   |-> Len(occurrences),
         contexts           |-> [k \in 1..Len(occurrences) |->
                                    traces[occurrences[k]].context],
         average_confidence |-> calculate_path_confidence(results_for_path),
         success_rate       |-> calculate_success_rate(results_for_path)]

\* mutant of SortedByCount: the patterns in any order of the HashMap
AnyOrder(patterns) == Orderings(patterns)

\* sort_by occurrence_count descending of the patterns pushed in the
\* iteration order of path_counts: every order the sort may end with
SortedByCount(patterns) ==
    { q \in Orderings(patterns) :
        \A i, j \in 1..Len(q) : i < j => q[i].occurrence_count >= q[j].occurrence_count }

\* detect_repeated_paths: every list it may return
detect_repeated_paths(traces, results, min_occurrences, min_path_length) ==
    LET paths == UNION { { Slice(traces[i].node_sequence, se) :
                             se \in extract_subpaths(traces[i].node_sequence,
                                                     min_path_length) } :
                         i \in 1..Len(traces) }
        patterns == { PathPattern(traces, results, path, min_path_length) :
                        path \in paths }
    IN  SortedByCount({ p \in patterns : p.occurrence_count >= min_occurrences })

\* eegs.iter().find(|e| e.metadata.compilation_timestamp == trace.timestamp):
\* its confidence_score in a one-element list, or the empty list
FindEEGConfidence(eegs, timestamp) ==
    LET hits == { i \in 1..Len(eegs) : eegs[i].compilation_timestamp = timestamp }
    IN  IF hits = {} THEN << >>
        ELSE <<eegs[CHOOSE i \in hits : \A j \in hits : i <= j].confidence_score>>

RECURSIVE ConfidencesOf(_, _, _)
ConfidencesOf(traces, eegs, indices) ==
    IF indices = << >> THEN << >>
    ELSE FindEEGConfidence(eegs, traces[Head(indices)].timestamp)
         \o ConfidencesOf(traces, eegs, Tail(indices))

\* The indices of s, in order
Indices(s) == [i \in 1..Len(s) |-> i]

AverageOr(confidences, default) ==
    IF confidences = << >> THEN default
    ELSE SumSeq(confidences) \div Len(confidences)

calculate_context_variance(contexts) ==
    IF Len(contexts) < 2 THEN 0
    ELSE 1000 - (1000 * Cardinality({ contexts[i] : i \in 1..Len(contexts) }))
                    \div Len(contexts)

\* The BranchPatterns that detect_stable_branches may push for one decision
\* node: none, or one for each branch that max_by_key may return.
BranchPatterns(traces, eegs, decision_node_id, min_occurrences, min_branch_ratio) ==
    LET deciding == SelectSeq(Indices(traces),
                        LAMBDA i : decision_node_id \in DOMAIN traces[i].branch_decisions)
        chosen(i) == traces[i].branch_decisions[decision_node_id]
        branches == { chosen(deciding[k]) : k \in 1..Len(deciding) }
        count(b) == Cardinality({ k \in 1..Len(deciding) : chosen(deciding[k]) = b })
        total_decisions == Len(deciding)
        dominants == { b \in branches : \A c \in branches : count(b) >= count(c) }
    IN  IF total_decisions < min_occurrences THEN {}
        ELSE { [decision_node      |-> decision_node_id,
                dominant_branch    |-> dominant,
                branch_ratio       |-> (1000 * count(dominant)) \div total_decisions,
                contexts           |-> [k \in 1..Len(deciding) |->
                                           traces[deciding[k]].context],
                average_confidence |->
                    AverageOr(ConfidencesOf(traces, eegs,
                                  SelectSeq(deciding, LAMBDA i : chosen(i) = dominant)),
                              800)] :
               dominant \in { b \in dominants :
                                (1000 * count(b)) \div total_decisions >= min_branch_ratio } }

\* detect_stable_branches: every list it may return, in the iteration order
\* of decision_stats
detect_stable_branches(traces, eegs, min_occurrences, min_branch_ratio) ==
    LET nodes == UNION { DOMAIN traces[i].branch_decisions : i \in 1..Len(traces) }
        of(n) == BranchPatterns(traces, eegs, n, min_occurrences, min_branch_ratio)
        pushing == { n \in nodes : of(n) # {} }
    IN  UNION { Orderings({ pick[n] : n \in pushing }) :
                pick \in { f \in [pushing -> UNION { of(n) : n \in pushing }] :
                             \A n \in pushing : f[n] \in of(n) } }

\* detect_invariant_subgraphs: every list it may return, in the iteration
\* order of subgraph_counts
detect_invariant_subgraphs(traces, eegs, min_occurrences, max_context_variance) ==
    LET subgraphs == { traces[i].node_sequence : i \in 1..Len(traces) }
        same(nodes) == SelectSeq(Indices(traces), LAMBDA i : traces[i].node_sequence = nodes)
        contexts(nodes) == [k \in 1..Len(same(nodes)) |-> traces[same(nodes)[k]].context]
        patterns ==
            { [subgraph_nodes     |-> nodes,
               occurrence_count   |-> Len(same(nodes)),
               contexts           |-> contexts(nodes),
               average_confidence |->
                   AverageOr(ConfidencesOf(traces, eegs, same(nodes)), 700),
               context_variance   |-> calculate_context_variance(contexts(nodes))] :
              nodes \in { s \in subgraphs :
                            /\ Len(same(s)) >= min_occurrences
                            /\ calculate_context_variance(contexts(s))
                                 <= max_context_variance } }
    IN  Orderings(patterns)

\* One of the three blocks of detect_high_confidence_outcomes; the average of
\* no result is NaN, which is not >= min_confidence.
OutcomePattern(results, outcome_type, success_rate, min_occurrences, min_confidence) ==
    LET of_type == SelectSeq(results, LAMBDA r : r.outcome_type = outcome_type)
        average_confidence == AverageOr([i \in 1..Len(of_type) |-> of_type[i].confidence], 0)
    IN  IF /\ Len(of_type) >= min_occurrences
           /\ Len(of_type) > 0
           /\ average_confidence >= min_confidence
        THEN << [outcome_type       |-> outcome_type,
                 occurrence_count   |-> Len(of_type),
                 average_confidence |-> average_confidence,
                 success_rate       |-> success_rate] >>
        ELSE << >>

detect_high_confidence_outcomes(results, min_occurrences, min_confidence) ==
    OutcomePattern(results, Success, 1000, min_occurrences, min_confidence)
    \o OutcomePattern(results, Failure, 0, min_occurrences, min_confidence)
    \o OutcomePattern(results, Partial, 500, min_occurrences, min_confidence)

estimate_speedup(occurrence_count) == Min(occurrence_count * 100, 10000)

calculate_priority(repetition_count, confidence, context_variance, reward_correlation, speedup) ==
    LET rep_factor == Min(repetition_count * 10, 1000)
        var_factor == 1000 - context_variance
        speedup_factor == Min(speedup \div 10, 1000)
    IN  Min((rep_factor * 200 + confidence * 300 + var_factor * 200
               + reward_correlation * 200 + speedup_factor * 100) \div 1000,
            1000)

\* The candidate of a PathPattern, in a one-element list, or the empty list
PathCandidate(p, config) ==
    LET context_variance == calculate_context_variance(p.contexts)
        estimated_speedup == estimate_speedup(p.occurrence_count)
    IN  IF /\ p.occurrence_count >= config.min_occurrences
           /\ p.average_confidence >= config.min_confidence
           /\ context_variance <= config.min_context_variance
           /\ p.success_rate >= config.min_reward_correlation
           /\ estimated_speedup >= config.min_speedup
        THEN << FossilizationCandidate(p.occurrence_count, p.average_confidence,
                    context_variance, p.success_rate, estimated_speedup,
                    calculate_priority(p.occurrence_count, p.average_confidence,
                        context_variance, p.success_rate, estimated_speedup)) >>
        ELSE << >>

\* The candidate of a BranchPattern; branch_ratio as usize is 1 for a ratio
\* of 1.0 and 0 below it.
BranchCandidate(p, config) ==
    LET context_variance == calculate_context_variance(p.contexts)
        estimated_speedup == 1500
    IN  IF /\ p.branch_ratio >= config.min_branch_ratio
           /\ p.average_confidence >= config.min_confidence
           /\ context_variance <= config.min_context_variance
           /\ estimated_speedup >= config.min_speedup
        THEN << FossilizationCandidate((p.branch_ratio * 10) \div 1000,
                    p.average_confidence, context_variance, p.branch_ratio,
                    estimated_speedup,
                    calculate_priority((p.branch_ratio \div 1000) * 10,
                        p.average_confidence, context_variance, p.branch_ratio,
                        estimated_speedup)) >>
        ELSE << >>

\* The first loop of identify_fossilization_candidates
RECURSIVE PathCandidates(_, _)
PathCandidates(patterns, config) ==
    IF patterns = << >> THEN << >>
    ELSE PathCandidate(Head(patterns), config)
         \o PathCandidates(Tail(patterns), config)

\* The second loop of identify_fossilization_candidates
RECURSIVE BranchCandidates(_, _)
BranchCandidates(patterns, config) ==
    IF patterns = << >> THEN << >>
    ELSE BranchCandidate(Head(patterns), config)
         \o BranchCandidates(Tail(patterns), config)

\* identify_fossilization_candidates; pattern_id is the position of the push
identify_fossilization_candidates(repeated_paths, stable_branches, config) ==
    LET candidates == PathCandidates(repeated_paths, config)
                      \o BranchCandidates(stable_branches, config)
    IN  SortByPriority([i \in 1..Len(candidates) |->
                           [candidates[i] EXCEPT !.pattern_id = i]])

\* The traces that the time window retains at time at
RetainedTraces(traces, time_window, at) ==
    IF time_window = << >> THEN traces
    ELSE SelectSeq(traces, LAMBDA trace : trace.timestamp >= at - time_window[1])

run_linter(time_window, config) ==
    /\ ops < MaxLints
    /\ ops' = ops + 1
    /\ LET traces == RetainedTraces(linter_input.execution_traces, time_window, now)
       IN  \E repeated_paths \in
                  detect_repeated_paths(traces, linter_input.execution_results,
                                        config.min_occurrences, config.min_path_length),
              stable_branches \in
                  detect_stable_branches(traces, linter_input.compiled_eegs,
                                         config.min_occurrences, config.min_branch_ratio),
              invariant_subgraphs \in
                  detect_invariant_subgraphs(traces, linter_input.compiled_eegs,
                                             config.min_occurrences,
                                             config.min_context_variance) :
             LET fossilization_candidates ==
                     identify_fossilization_candidates(repeated_paths,
                                                       stable_branches, config)
             IN  /\ last' = [op          |-> "run_linter",
                             input       |-> linter_input,
                             time_window |-> time_window,
                             config      |-> config,
                             at          |-> now,
                             report      |->
                                 [repeated_paths      |-> repeated_paths,
                                  stable_branches     |-> stable_branches,
                                  invariant_subgraphs |-> invariant_subgraphs,
                                  high_confidence_outcomes |->
                                      detect_high_confidence_outcomes(
                                          linter_input.execution_results,
                                          config.min_occurrences,
                                          config.min_confidence),
                                  fossilization_candidates |->
                                      fossilization_candidates]]
                 /\ pattern_report' = fossilization_candidates
    /\ UNCHANGED <<fragments, edges, activation_index, compiled_modules, now,
                   next_id, start, exec_vars, expansion_vars,
                   co_activation_patterns, co_calls, compiled_eeg, linter_input>>

NextLinter ==
    \/ \E r \in Runs : push_run(r)
    \/ \E time_window \in TimeWindows, config \in LinterConfigs :
          run_linter(time_window, config)

SpecLinter == Init /\ [][NextLinter]_vars

\* The traces of the last run_linter call that its time window retained
Retained28 ==
    SelectSeq(last.input.execution_traces,
              LAMBDA trace : \/ last.time_window = << >>
                             \/ trace.timestamp >= last.at - last.time_window[1])

\* The number of occurrences of path as a contiguous subsequence over all
\* retained traces
Occurrences28(path) ==
    Cardinality({ is \in (1..Len(Retained28)) \X (1..MaxIds) :
                    LET sequence == Retained28[is[1]].node_sequence
                    IN  /\ is[2] + Len(path) - 1 <= Len(sequence)
                        /\ SubSeq(sequence, is[2], is[2] + Len(path) - 1) = path })

\* C28: run_linter reports a path in repeated_paths if and only if it is a
\* contiguous subsequence of length >= min_path_length of some retained trace
\* and its occurrences over all retained traces number at least
\* min_occurrences; each path is reported once, its occurrence_count is that
\* number, the list is sorted by occurrence_count descending, and on empty
\* input every report field is empty.
C28_RepeatedPaths ==
    last.op = "run_linter" =>
        LET repeated_paths == last.report.repeated_paths
            reported == { repeated_paths[i].path : i \in 1..Len(repeated_paths) }
        IN  /\ \A path \in IdSeqs(MaxIds) :
                  path \in reported <=>
                      /\ Len(path) >= last.config.min_path_length
                      /\ Occurrences28(path) >= 1
                      /\ Occurrences28(path) >= last.config.min_occurrences
            /\ reported \subseteq IdSeqs(MaxIds)
            /\ \A i, j \in 1..Len(repeated_paths) :
                  /\ i # j => repeated_paths[i].path # repeated_paths[j].path
                  /\ i < j => repeated_paths[i].occurrence_count
                                 >= repeated_paths[j].occurrence_count
            /\ \A i \in 1..Len(repeated_paths) :
                  repeated_paths[i].occurrence_count
                      = Occurrences28(repeated_paths[i].path)
            /\ last.input = NoLinterInput =>
                  /\ last.report.repeated_paths = << >>
                  /\ last.report.stable_branches = << >>
                  /\ last.report.invariant_subgraphs = << >>
                  /\ last.report.high_confidence_outcomes = << >>
                  /\ last.report.fossilization_candidates = << >>

\* A report on two traces of which the time window dropped none: paths with
\* different counts, one of them counted twice within one trace, and a path
\* that occurs but stays below min_occurrences.
C28_Witness ==
    /\ last.op = "run_linter"
    /\ Len(Retained28) = 2
    /\ last.config.min_occurrences = 2
    /\ \E i, j \in 1..Len(last.report.repeated_paths) :
          last.report.repeated_paths[i].occurrence_count
              > last.report.repeated_paths[j].occurrence_count
    /\ \E i \in 1..Len(last.report.repeated_paths) :
          /\ last.report.repeated_paths[i].path = <<1>>
          /\ last.report.repeated_paths[i].occurrence_count = 3
    /\ \E path \in IdSeqs(MaxIds) :
          /\ Len(path) >= last.config.min_path_length
          /\ Occurrences28(path) = 1

------------------------------------------------------------------------------
\* Frame conditions of execute_eeg and reinforce_fragment

\* C29: execute_eeg never modifies the MemoryGraph it is given: fragments,
\* edges, activation index, compiled modules and co-activation patterns are
\* the same before and after every step of the call; reinforcement takes
\* effect only when the caller applies the returned signals through
\* reinforce_fragment.
C29_ExecuteLeavesMemory ==
    [][(pc = "loop" \/ (pc = "idle" /\ pc' = "loop")) =>
          UNCHANGED <<fragments, edges, activation_index, compiled_modules,
                      co_activation_patterns>>]_vars

\* A finished walk that returned a signal for a stored fragment whose
\* confidence and reinforcement_count are still those of its insertion.
C29_Witness ==
    /\ pc = "done"
    /\ \E i \in 1..Len(reinforcement_signals) :
          LET id == reinforcement_signals[i]
          IN  /\ id \in DOMAIN fragments
              /\ fragments[id].reinforcement_count = 0
              /\ fragments[id].confidence = start[id].confidence
              /\ last.op = "compile"

\* C30: reinforce_fragment called with an id that has no stored fragment
\* leaves the MemoryGraph unchanged for every outcome type, including the
\* strength and last_reinforced of the edges that still mention that id.
C30_ReinforceAbsentLeavesMemory ==
    [][(/\ ops' = ops + 1
        /\ last'.op = "reinforce"
        /\ last'.id \notin DOMAIN fragments) =>
          UNCHANGED <<fragments, edges, activation_index, compiled_modules,
                      co_activation_patterns>>]_vars

====
